---- MODULE Spec2Model ----
(***************************************************************************)
(* A model of sentenai's execution Cursor (src/sentenai/api.py) and of its *)
(* query algebra (src/sentenai/flare.py).                                  *)
(*                                                                         *)
(* The Cursor: the event pagination of one interval (Cursor._slice), the   *)
(* span pagination and its cache (Cursor.spans), the lazily created worker *)
(* pool (Cursor.pool) and the materialization passes (Cursor.json,         *)
(* Cursor.dataset, Cursor.sliding).  SliceSpec follows one _slice call     *)
(* request by request against a server that answers each request with a   *)
(* failure or with a page.  Spec follows a Cursor through sequences of     *)
(* spans / len / stats / pool / json / dataset / sliding calls; there each *)
(* per-interval _slice call is run to its end by the same loop body        *)
(* (SliceIter) over a scripted answer list.  WinSpec applies the window    *)
(* function of Cursor.dataset to the spans of a page.  SliceFairSpec is    *)
(* SliceSpec over pages that carry no events, with weak fairness on the    *)
(* loop: the loop body always runs to its next request, return or raise.   *)
(* SlidingSpec carves the windows of one interval (sliding.slides) and     *)
(* filters the frames cut from them (sliding.iterator).  FrameSpec         *)
(* concatenates the tables of a FrameGroup (FrameGroup.dataframe).         *)
(* MapSpec runs the _slice calls of one pool.map on concurrent workers,    *)
(* one loop iteration at a time, in every interleaving.                    *)
(*                                                                         *)
(* The query algebra: MergeSpec merges a Span with the Span that is its    *)
(* sole sub-expression; ChainSpec serializes a chain of two or three Spans *)
(* nested as sole sub-expressions; BuilderSpec follows the builder calls   *)
(* on a Select, a Span or a Serial and their serialization; SwitchSpec     *)
(* follows a Switch from its construction through >>, binding and          *)
(* serialization; CondSpec makes a Cond by a path comparison and           *)
(* serializes it.                                                          *)
(***************************************************************************)
EXTENDS Integers, Sequences, FiniteSets, TLC

\* ------------------------------------------------------------------ bounds

\* longest chain of event pages the server serves for one interval
MaxEventPages == 3
\* most events on one event page
MaxPageEvents == 2
\* most events the server delivers to one _slice call
MaxEvents == 4

\* longest chain of span pages the server serves for one query
MaxSpanPages == 2
\* most windows sliding carves out of one interval
MaxWindows == 1

\* --------------------------------------------------------- program constants

\* api.py:426  def _slice(self, cursor, start, end, max_retries=3)
max_retries == 3
\* Python's None, for a continuation token or a limit that is absent
None == -1
\* api.py:423  ThreadPool(16 if sl > 16 else sl)
PoolMax == 16
\* api.py:410  self.query_id = r.headers['location']: the first span token
\* (span tokens are 1, 2, ...: non-empty strings, true in Python)
query_id == 1

\* ---------------------------------------------------------------- the server

\* stream ids the server tags events with
Streams == {"a", "b"}
\* an event as delivered: its id stands for the payload, 'stream' is the tag
Events == { [stream |-> "a", id |-> 1], [stream |-> "a", id |-> 2], [stream |-> "b", id |-> 1] }

RECURSIVE SeqsUpTo(_, _)
SeqsUpTo(S, n) == IF n = 0 THEN { <<>> } ELSE LET shorter == SeqsUpTo(S, n - 1) IN shorter \cup { Append(q, x) : q \in { r \in shorter : Len(r) = n - 1 }, x \in S }

Range(q) == { q[j] : j \in DOMAIN q }

\* the JSON body of a successful event page: data['streams'] declares (at
\* least) the streams its events are tagged with, data['events'] is ordered
EventPageBodies == { [events |-> ev, streams |-> decl] : ev \in SeqsUpTo(Events, MaxPageEvents), decl \in SUBSET Streams }

WellFormed(body) == { e.stream : e \in Range(body.events) } \subseteq body.streams

\* api.py:449  resp.ok: of the answer kinds "ok", "fail" and "auth" (a
\* 401/403 answer) it holds for "ok" alone
RespOk(resp) == resp.kind = "ok"

\* ------------------------------------------------------------------- state

VARIABLES slc, result, arrived, declared, requested, consec, lastResp, failed

\* slc       the locals of the running _slice call: pc, c, retries, streams
\* result    the 'streams' part of what _slice returned
\* arrived   history: the events of the successful pages, in arrival order
\* declared  history: the stream ids declared by the successful pages
\* requested history: the token last requested and how often it has been
\*           requested in a row
\* consec    history: failed answers since the last successful page
\* lastResp  history: the kind of the last answer
\* failed    history: failed answers of this call in total

sliceVars == <<slc, result, arrived, declared, requested, consec, lastResp, failed>>

VARIABLES PY3, _limit, has_spans, _spans, _pool

\* PY3        utils.py:7, the interpreter the package runs under
\* _limit     Cursor._limit, None or a number
\* has_spans  hasattr(self, "_spans")
\* _spans     Cursor._spans, the cached span list
\* _pool      Cursor._pool

cursorVars == <<PY3, _limit, has_spans, _spans, _pool>>

VARIABLES pc, call, cont, cid, spans, intervals, i, mapRaised, tables, outcome, err

\* pc         where the running call stands: "idle", "spans_loop", "map",
\*            "yield" or "slide"
\* call       the call the caller made: op, refresh, inverted, and (history)
\*            whether a json or dataset pass had completed before it
\* cont       what runs once the spans() in progress returns
\* cid, spans the locals of the spans() in progress
\* intervals  the local interval list of the pass in progress
\* i          the next interval of the pass
\* mapRaised  whether a task of the pool.map in progress raised
\* tables     how many tables the caller has received from the pass
\* outcome    "none", "running", "returned" or "raised"
\* err        what was raised

callVars == <<pc, call, cont, cid, spans, intervals, i, mapRaised, tables, outcome, err>>

VARIABLES spanReqs, served, completed, clean

\* spanReqs   history: the span tokens requested during the current call
\* served     history: the span pages answered during the current call
\* completed  history: a json or dataset pass has completed on this Cursor
\* clean      history: no request of the current call was answered by a failure

histVars == <<spanReqs, served, completed, clean>>

VARIABLES outer, inner, merged

\* outer      the Span whose sole sub-expression is a Span (s1 of merge)
\* inner      that sub-expression (s2 of merge)
\* merged     what merge(outer, inner) returned

mergeVars == <<outer, inner, merged>>

VARIABLES root, _query, how, lastCall, raised, erred, ast, _stream, cond

\* root       the object the caller builds a query on: "Select", "Span",
\*            "Serial", "Switch" or "Cond" ("none": none so far)
\* _query     its segments: Select._query, Serial.query, or the Span itself;
\*            of a Switch its condition groups, Switch._query
\* how        history: the call that made each segment: op, q, kwargs
\* lastCall   history: the last call made on the object: op, q, kwargs
\* raised     what the last call raised, "" if nothing
\* erred      history: the op of the last call on the object that raised
\* ast        what the object serialized to, if nothing was called since
\* _stream    Switch._stream: None or the stream the Switch is bound to
\* cond       the Cond a path comparison made

builderVars == <<root, _query, how, lastCall, raised, erred, ast, _stream, cond>>

\* the state of the query algebra (src/sentenai/flare.py)
flareVars == <<mergeVars, builderVars>>

VARIABLES window, align, span, windowed

\* window     the window of the dataset call: None or its length
\* align      the align of the dataset call
\* span       the span last given to win
\* windowed   what win returned for it: cursor, start, end

winVars == <<window, align, span, windowed>>

VARIABLES lookback, horizon, slide, freq, fr, cslide, exhausted, carved, yielded

\* lookback, horizon, slide, freq  the arguments of the sliding call, in
\*            seconds
\* fr         the resampled frame of each stream of the interval at hand:
\*            its first and its last timestamp
\* cslide     the local of the slides generator
\* exhausted  the slides generator has ended
\* carved     history: the windows slides has yielded, in order
\* yielded    the windows the sliding iterator has yielded: t0, t1 and the
\*            timestamps of the rows

slidingVars == <<lookback, horizon, slide, freq, fr, cslide, exhausted, carved, yielded>>

VARIABLES frames, enum, dfs, rdf

\* frames     the tables the iterator of a FrameGroup yields, each the
\*            timestamps of its rows in order
\* enum       how many of them FrameGroup.dataframe has taken
\* dfs        the local list of FrameGroup.dataframe
\* rdf        what FrameGroup.dataframe returned, once it has: the rows
\*            of the concatenated table

frameVars == <<frames, enum, dfs, rdf>>

VARIABLES task, taken, results, data

\* task       the locals of the _slice call of each task of the pool.map in
\*            progress: pc, c, retries, streams
\* taken      how many tasks the workers have taken off the queue
\* results    the result of each task, by the task's place in the iterable
\* data       what pool.map returned

mapVars == <<task, taken, results, data>>

\* the state of the frames built from the slices (src/sentenai/api.py)
engineVars == <<slidingVars, frameVars, mapVars>>

vars == <<slc, result, arrived, declared, requested, consec, lastResp, failed, PY3, _limit, has_spans, _spans, _pool, pc, call, cont, cid, spans, intervals, i, mapRaised, tables, outcome, err, spanReqs, served, completed, clean, outer, inner, merged, root, _query, how, lastCall, raised, erred, ast, _stream, cond, window, align, span, windowed, lookback, horizon, slide, freq, fr, cslide, exhausted, carved, yielded, frames, enum, dfs, rdf, task, taken, results, data>>

\* ------------------------------------------------------------ Cursor._slice

EmptyStreams == [sid \in {} |-> 0]

\* api.py:462-464  for sid, stream_obj in data['streams'].items(): ...
InitStreams(streams, decl) == [sid \in (DOMAIN streams) \cup decl |-> IF sid \in DOMAIN streams THEN streams[sid] ELSE [stream |-> sid, events |-> <<>>]]

\* api.py:470  del event['stream']
StripTag(event) == [id |-> event.id]

\* api.py:468-471  the event is appended to its stream's list, tag removed
AppendEventDup(streams, event) == [streams EXCEPT ![event.stream].events = Append(Append(@, StripTag(event)), StripTag(event))]

AppendEvent(streams, event) == [streams EXCEPT ![event.stream].events = Append(@, StripTag(event))]

\* api.py:467-471  for event in data['events']: ...
RECURSIVE GroupEvents(_, _)
GroupEvents(streams, events) == IF events = <<>> THEN streams ELSE GroupEvents(AppendEvent(streams, Head(events)), Tail(events))

\* api.py:437-443  the locals at loop entry; token 0 stands for the windowed
\* token "<root>+<start>Z+<end>Z", token k > 0 for the k-th server token
SliceEntry == [pc |-> "loop", c |-> 0, retries |-> 0, streams |-> EmptyStreams]

SliceIdle == [pc |-> "idle", c |-> None, retries |-> 0, streams |-> EmptyStreams]

\* api.py:445-471  one iteration of `while c is not None` on answer resp
SliceIterNoReset(st, resp) == IF ~RespOk(resp) /\ st.retries >= max_retries THEN [st EXCEPT !.pc = "raised"] ELSE IF ~RespOk(resp) THEN [st EXCEPT !.retries = @ + 1] ELSE [st EXCEPT !.c = resp.cursor, !.streams = GroupEvents(InitStreams(@, resp.data.streams), resp.data.events)]

SliceIterOffByOne(st, resp) == IF ~RespOk(resp) /\ st.retries > max_retries THEN [st EXCEPT !.pc = "raised"] ELSE IF ~RespOk(resp) THEN [st EXCEPT !.retries = @ + 1] ELSE [st EXCEPT !.retries = 0, !.c = resp.cursor, !.streams = GroupEvents(InitStreams(@, resp.data.streams), resp.data.events)]

SliceIter(st, resp) == IF ~RespOk(resp) /\ st.retries >= max_retries THEN [st EXCEPT !.pc = "raised"] ELSE IF ~RespOk(resp) THEN [st EXCEPT !.retries = @ + 1] ELSE [st EXCEPT !.retries = 0, !.c = resp.cursor, !.streams = GroupEvents(InitStreams(@, resp.data.streams), resp.data.events)]

\* api.py:472  return {'start': start, 'end': end, 'streams': list(streams.values())}
\* (the list's order is the dict's iteration order; kept as the mapping)
SliceReturnValue(st) == st.streams

\* the answers the server may give to a request for token tok: a failure of
\* either kind, or a well-formed page with the next token or with none
NextTokens(tok) == IF tok + 1 < MaxEventPages THEN {tok + 1, None} ELSE {None}

Failures == { [kind |-> k, cursor |-> None, data |-> [events |-> <<>>, streams |-> {}]] : k \in {"fail", "auth"} }

Pages(tok, room) == { [kind |-> "ok", cursor |-> n, data |-> b] : n \in NextTokens(tok), b \in { x \in EventPageBodies : WellFormed(x) /\ Len(x.events) <= room } }

\* history bookkeeping of one request for token tok and its answer
Note(tok, resp) ==
    /\ requested' = [tok |-> tok, n |-> IF requested.tok = tok THEN requested.n + 1 ELSE 1]
    /\ lastResp' = resp.kind
    /\ consec' = IF RespOk(resp) THEN 0 ELSE consec + 1
    /\ failed' = IF RespOk(resp) THEN failed ELSE failed + 1
    /\ arrived' = IF RespOk(resp) THEN arrived \o resp.data.events ELSE arrived
    /\ declared' = IF RespOk(resp) THEN declared \cup resp.data.streams ELSE declared

\* a caller enters _slice
SliceCall ==
    /\ slc.pc = "idle"
    /\ slc' = SliceEntry
    /\ result' = EmptyStreams
    /\ arrived' = <<>>
    /\ declared' = {}
    /\ requested' = [tok |-> None, n |-> 0]
    /\ consec' = 0
    /\ failed' = 0
    /\ lastResp' = "none"
    /\ UNCHANGED <<cursorVars, callVars, histVars, flareVars, winVars, engineVars>>

\* a loop iteration whose request is answered by a page
SlicePage ==
    /\ slc.pc = "loop"
    /\ slc.c # None
    /\ \E resp \in Pages(slc.c, MaxEvents - Len(arrived)) :
        /\ slc' = SliceIter(slc, resp)
        /\ Note(slc.c, resp)
    /\ UNCHANGED result
    /\ UNCHANGED <<cursorVars, callVars, histVars, flareVars, winVars, engineVars>>

\* a loop iteration whose request is answered by a failure
SliceFailure ==
    /\ slc.pc = "loop"
    /\ slc.c # None
    /\ \E resp \in Failures :
        /\ slc' = SliceIter(slc, resp)
        /\ Note(slc.c, resp)
    /\ UNCHANGED result
    /\ UNCHANGED <<cursorVars, callVars, histVars, flareVars, winVars, engineVars>>

SliceReturnSpins == slc.pc = "loop" /\ slc.c = None /\ UNCHANGED vars

\* the loop ends: c is None
SliceReturn ==
    /\ slc.pc = "loop"
    /\ slc.c = None
    /\ slc' = [slc EXCEPT !.pc = "returned"]
    /\ result' = SliceReturnValue(slc)
    /\ UNCHANGED <<arrived, declared, requested, consec, lastResp, failed>>
    /\ UNCHANGED <<cursorVars, callVars, histVars, flareVars, winVars, engineVars>>

SliceInit ==
    /\ slc = SliceIdle
    /\ result = EmptyStreams
    /\ arrived = <<>>
    /\ declared = {}
    /\ requested = [tok |-> None, n |-> 0]
    /\ consec = 0
    /\ failed = 0
    /\ lastResp = "none"


\* ------------------------------------------- _slice run to its end (Spec)

\* api.py:445-472  the whole loop over a list of answers, one per request
RECURSIVE SliceRun(_, _)
SliceRun(st, script) == IF st.pc # "loop" THEN st ELSE IF st.c = None THEN [st EXCEPT !.pc = "returned"] ELSE IF script = <<>> THEN st ELSE SliceRun(SliceIter(st, Head(script)), Tail(script))

OkAnswer(next) == [kind |-> "ok", cursor |-> next, data |-> [events |-> << [stream |-> "a", id |-> 1] >>, streams |-> {"a"}]]

FailAnswer == [kind |-> "fail", cursor |-> None, data |-> [events |-> <<>>, streams |-> {}]]

\* what the server answers to the requests of one interval's _slice: a last
\* page at once; a failure, then two pages; four failures in a row
SliceScripts == { << OkAnswer(None) >>, << FailAnswer, OkAnswer(1), OkAnswer(None) >>, << FailAnswer, FailAnswer, FailAnswer, FailAnswer >> }

ScriptClean(script) == \A k \in DOMAIN script : RespOk(script[k])

\* ------------------------------------------------------------ Cursor.pool

\* self._pool = None
NoPool == [processes |-> 0, state |-> "NONE"]

\* `if self._pool:` -- a ThreadPool object is true, running or closed
Present(p) == p.state # "NONE"

ThreadPool(processes) == [processes |-> processes, state |-> "RUN"]

\* multiprocessing.pool: close() stops the pool taking work
Close(p) == IF p.state = "RUN" THEN [p EXCEPT !.state = "CLOSE"] ELSE p

\* api.py:423  16 if sl > 16 else sl
PoolSizeUncapped(sl) == sl

PoolSize(sl) == IF sl > PoolMax THEN PoolMax ELSE sl

\* api.py:423  ThreadPool(16 if sl > 16 else sl) if sl else None
MakePool(sl) == IF sl # 0 THEN ThreadPool(PoolSize(sl)) ELSE NoPool

\* api.py:417-424  the pool property, the span list sp being cached
PoolGet(p, sp) == IF Present(p) THEN p ELSE MakePool(Len(sp))

\* ----------------------------------------------------------- Cursor.spans

\* spans are closed intervals known by an id: the j-th span of the page
\* served for token tok.  The first page holds no span, one span or 17
\* spans (more than the pool's cap), a later page at most one
SpanPageSizes(tok) == IF tok = query_id THEN {0, 1, 17} ELSE {0, 1}

SpanPageOf(tok, n) == [j \in 1..n |-> 100 * tok + j]

NextSpanTokens(tok) == IF tok < MaxSpanPages THEN {tok + 1, None} ELSE {None}

SpanPages(tok) == { [kind |-> "ok", cursor |-> nx, spans |-> SpanPageOf(tok, n)] : nx \in NextSpanTokens(tok), n \in SpanPageSizes(tok) }

\* limits a Cursor is created with
Limits == {None, 2}

SpanFailures == { [kind |-> k, cursor |-> None, spans |-> <<>>] : k \in {"fail", "auth"} }

\* sentenai/exceptions.py  handle(resp): raises for an answer that failed
\* (authentication failure, not found, API error), else returns it
HandleRaises(r) == r.kind # "ok"

\* Python truth of a token or a limit
Truthy(x) == x # None /\ x # 0

\* api.py:504  if refresh or not hasattr(self, "_spans")
NeedsFetchAlways(refresh) == TRUE

NeedsFetch(refresh) == refresh \/ ~has_spans

\* api.py:519  spans.extend(r['spans'])
ExtendFront(acc, page) == page \o acc

Extend(acc, page) == acc \o page

\* ------------------------------------------------- the intervals of a pass

Interval(cur, st, en) == [cursor |-> cur, start |-> st, end |-> en]

StartOf(sp) == [at |-> "start", of |-> sp]

EndOf(sp) == [at |-> "end", of |-> sp]

\* api.py:644/658  the string "1900-01-01T00:00:00Z", not a datetime
Str1900 == [at |-> "str", of |-> 0]

\* api.py:496  json slices every cached span
JsonIntervals(sp) == [k \in DOMAIN sp |-> Interval(sp[k], StartOf(sp[k]), EndOf(sp[k]))]

\* api.py:585-592  dataset: in inverted mode self._spans[0][0] indexes a
\* dict by 0, which raises KeyError
DatasetKeyError(inverted, sp) == inverted /\ sp # <<>>

DatasetIntervals(inverted, sp) == IF inverted THEN <<>> ELSE [k \in DOMAIN sp |-> Interval(sp[k], StartOf(sp[k]), EndOf(sp[k]))]

\* api.py:654-664  sliding: the gaps are a leading interval from the string
\* sentinel to the first span's start, then (t0.end, t1.start) per pair
SlidingGaps(sp) == [k \in DOMAIN sp |-> IF k = 1 THEN Interval(sp[1], Str1900, StartOf(sp[1])) ELSE Interval(sp[k - 1], EndOf(sp[k - 1]), StartOf(sp[k]))]

SlidingIntervals(inverted, sp) == IF inverted THEN SlidingGaps(sp) ELSE [k \in DOMAIN sp |-> Interval(sp[k], StartOf(sp[k]), EndOf(sp[k]))]

\* api.py:441  start.replace(tzinfo=None) raises TypeError on a str
SliceTypeError(iv) == iv.start.at = "str"

\* ------------------------------------------------------ the calls, by step

\* the call is over
Done(out, e) ==
    /\ pc' = "idle"
    /\ outcome' = out
    /\ err' = e
    /\ cont' = "none"
    /\ cid' = None
    /\ spans' = <<>>
    /\ mapRaised' = FALSE
    /\ completed' = (completed \/ (out = "returned" /\ call'.op \in {"json", "dataset"}))

\* pool.map / the sliding loop / the yield loop starts over the list ivs
Start(at, ivs) ==
    /\ pc' = at
    /\ intervals' = ivs
    /\ i' = 1
    /\ outcome' = "running"
    /\ err' = ""
    /\ cont' = "none"
    /\ cid' = None
    /\ spans' = <<>>
    /\ mapRaised' = FALSE
    /\ UNCHANGED completed

\* api.py:491-497  json after self.spans()
JsonAfterSpans(sp) ==
    LET p == PoolGet(_pool, sp) IN
    IF ~Present(p) THEN _pool' = p /\ Done("returned", "") /\ UNCHANGED <<intervals, i>>
    ELSE IF p.state # "RUN" THEN _pool' = Close(p) /\ Done("raised", "ValueError") /\ UNCHANGED <<intervals, i>>
    ELSE _pool' = p /\ Start("map", JsonIntervals(sp))

\* api.py:584-595  dataset's iterator after self.spans(); pool.map on None
\* raises AttributeError, on a closed pool ValueError
DatasetAfterSpans(inverted, sp) ==
    LET p == PoolGet(_pool, sp) IN
    IF DatasetKeyError(inverted, sp) THEN UNCHANGED _pool /\ Done("raised", "KeyError") /\ UNCHANGED <<intervals, i>>
    ELSE IF ~Present(p) THEN _pool' = p /\ Done("raised", "AttributeError") /\ UNCHANGED <<intervals, i>>
    ELSE IF p.state # "RUN" THEN _pool' = p /\ Done("raised", "ValueError") /\ UNCHANGED <<intervals, i>>
    ELSE _pool' = p /\ Start("map", DatasetIntervals(inverted, sp))

\* api.py:653-665  sliding's iterator after self.spans()
SlidingAfterSpans(inverted, sp) == UNCHANGED _pool /\ Start("slide", SlidingIntervals(inverted, sp))

\* what runs when spans() has returned, the cached list being sp
AfterSpans(k, sp) ==
    CASE k = "return" -> UNCHANGED _pool /\ Done("returned", "") /\ UNCHANGED <<intervals, i>>
      [] k = "pool" -> _pool' = MakePool(Len(sp)) /\ Done("returned", "") /\ UNCHANGED <<intervals, i>>
      [] k = "json" -> JsonAfterSpans(sp)
      [] k = "dataset" -> DatasetAfterSpans(call'.inverted, sp)
      [] k = "sliding" -> SlidingAfterSpans(call'.inverted, sp)

\* api.py:502-507  spans(refresh) is entered; k runs once it has returned
EnterSpans(refresh, k) ==
    IF NeedsFetch(refresh)
    THEN /\ pc' = "spans_loop"
         /\ cont' = k
         /\ cid' = query_id
         /\ spans' = <<>>
         /\ outcome' = "running"
         /\ err' = ""
         /\ UNCHANGED <<has_spans, _spans, _pool, intervals, i, mapRaised, completed>>
    ELSE /\ AfterSpans(k, _spans)
         /\ UNCHANGED <<has_spans, _spans>>

\* the caller makes a call on the idle Cursor
Begin(op, refresh, inverted) ==
    /\ pc = "idle"
    /\ call' = [op |-> op, refresh |-> refresh, inverted |-> inverted, after |-> completed]
    /\ tables' = 0
    /\ spanReqs' = <<>>
    /\ served' = <<>>
    /\ clean' = TRUE
    /\ UNCHANGED <<PY3, _limit, sliceVars, flareVars, winVars, engineVars>>

\* api.py:502  cursor.spans(refresh)
CallSpans == \E refresh \in BOOLEAN : Begin("spans", refresh, FALSE) /\ EnterSpans(refresh, "return")

\* api.py:414-415  len(cursor)
CallLen == Begin("len", FALSE, FALSE) /\ EnterSpans(FALSE, "return")

\* api.py:535-550  cursor.stats(): self.spans(), then a summary of self._spans
CallStats == Begin("stats", FALSE, FALSE) /\ EnterSpans(FALSE, "return")

\* api.py:417-424  cursor.pool
CallPool ==
    /\ Begin("pool", FALSE, FALSE)
    /\ IF Present(_pool)
       THEN Done("returned", "") /\ UNCHANGED <<has_spans, _spans, _pool, intervals, i>>
       ELSE EnterSpans(FALSE, "pool")

\* api.py:474-499  cursor.json()
CallJson == Begin("json", FALSE, FALSE) /\ EnterSpans(FALSE, "json")

\* api.py:583-620  a pass over cursor.dataset(...), inverse() or not
CallDataset == \E inverted \in BOOLEAN : Begin("dataset", FALSE, inverted) /\ EnterSpans(FALSE, "dataset")

\* api.py:652-689  a pass over cursor.sliding(...), inverse() or not
CallSliding == \E inverted \in BOOLEAN : Begin("sliding", FALSE, inverted) /\ EnterSpans(FALSE, "sliding")

\* api.py:507-512  a span page is requested and handle() raises on the answer
SpansPageFails ==
    /\ pc = "spans_loop"
    /\ UNCHANGED call
    /\ Truthy(cid)
    /\ \E r \in SpanFailures : HandleRaises(r)
    /\ spanReqs' = Append(spanReqs, cid)
    /\ clean' = FALSE
    /\ Done("raised", "APIError")
    /\ UNCHANGED <<PY3, _limit, has_spans, _spans, _pool, intervals, i, tables, served, sliceVars, flareVars, winVars, engineVars>>

SpansPageOkCachingEachPage ==
    /\ pc = "spans_loop"
    /\ UNCHANGED call
    /\ Truthy(cid)
    /\ \E r \in SpanPages(cid) :
        LET acc == Extend(spans, r.spans) IN
        /\ ~HandleRaises(r)
        /\ spanReqs' = Append(spanReqs, cid)
        /\ served' = Append(served, r)
        /\ IF Truthy(_limit) /\ PY3
           THEN Done("raised", "TypeError: list >= int") /\ UNCHANGED <<has_spans, _spans, _pool, intervals, i>>
           ELSE IF Truthy(r.cursor) /\ ~Truthy(_limit)
           THEN /\ cid' = r.cursor
                /\ spans' = acc
                /\ _spans' = acc
                /\ has_spans' = TRUE
                /\ UNCHANGED <<pc, cont, _pool, intervals, i, mapRaised, outcome, err, completed>>
           ELSE /\ _spans' = acc
                /\ has_spans' = TRUE
                /\ AfterSpans(cont, acc)
    /\ UNCHANGED <<PY3, _limit, tables, clean, sliceVars, flareVars, winVars, engineVars>>

\* api.py:507-524  a span page is requested and answered: the page is added,
\* the limit is tested (list >= int: TypeError under Python 3, true under
\* Python 2), and the loop goes on or the list is cached and spans() returns
SpansPageOk ==
    /\ pc = "spans_loop"
    /\ UNCHANGED call
    /\ Truthy(cid)
    /\ \E r \in SpanPages(cid) :
        LET acc == Extend(spans, r.spans) IN
        /\ ~HandleRaises(r)
        /\ spanReqs' = Append(spanReqs, cid)
        /\ served' = Append(served, r)
        /\ IF Truthy(_limit) /\ PY3
           THEN Done("raised", "TypeError: list >= int") /\ UNCHANGED <<has_spans, _spans, _pool, intervals, i>>
           ELSE IF Truthy(r.cursor) /\ ~Truthy(_limit)
           THEN /\ cid' = r.cursor
                /\ spans' = acc
                /\ UNCHANGED <<pc, cont, has_spans, _spans, _pool, intervals, i, mapRaised, outcome, err, completed>>
           ELSE /\ _spans' = acc
                /\ has_spans' = TRUE
                /\ AfterSpans(cont, acc)
    /\ UNCHANGED <<PY3, _limit, tables, clean, sliceVars, flareVars, winVars, engineVars>>

\* api.py:496/595  one task of pool.map: the _slice of interval i
MapTask ==
    /\ pc = "map"
    /\ i <= Len(intervals)
    /\ \E script \in SliceScripts :
        /\ mapRaised' = (mapRaised \/ SliceRun(SliceEntry, script).pc = "raised")
        /\ clean' = (clean /\ ScriptClean(script))
    /\ i' = i + 1
    /\ UNCHANGED <<cursorVars, pc, call, cont, cid, spans, intervals, tables, outcome, err, spanReqs, served, completed, sliceVars, flareVars, winVars, engineVars>>

\* api.py:496-499/595  pool.map returns the results in order or raises what
\* a task raised; json then closes the pool, dataset starts to yield
MapDone ==
    /\ pc = "map"
    /\ UNCHANGED call
    /\ i > Len(intervals)
    /\ IF call.op = "json"
       THEN /\ _pool' = Close(_pool)
            /\ IF mapRaised THEN Done("raised", "terminal") ELSE Done("returned", "")
            /\ UNCHANGED <<intervals, i>>
       ELSE /\ UNCHANGED _pool
            /\ IF mapRaised THEN Done("raised", "terminal") /\ UNCHANGED <<intervals, i>> ELSE Start("yield", intervals)
    /\ UNCHANGED <<PY3, _limit, has_spans, _spans, tables, spanReqs, served, clean, sliceVars, flareVars, winVars, engineVars>>

\* api.py:596-620  dataset builds and yields the table of the next interval
DatasetYield ==
    /\ pc = "yield"
    /\ i <= Len(intervals)
    /\ tables' = tables + 1
    /\ i' = i + 1
    /\ UNCHANGED <<cursorVars, pc, call, cont, cid, spans, intervals, mapRaised, outcome, err, histVars, sliceVars, flareVars, winVars, engineVars>>

\* api.py:595  the for loop ends and with it the generator
DatasetEnd ==
    /\ pc = "yield"
    /\ UNCHANGED call
    /\ i > Len(intervals)
    /\ Done("returned", "")
    /\ UNCHANGED <<cursorVars, intervals, i, tables, spanReqs, served, clean, sliceVars, flareVars, winVars, engineVars>>

\* api.py:665-689  sliding slices the next interval, then carves and yields
\* its full windows
SlidingInterval ==
    /\ pc = "slide"
    /\ UNCHANGED call
    /\ i <= Len(intervals)
    /\ IF SliceTypeError(intervals[i])
       THEN Done("raised", "TypeError: str.replace") /\ UNCHANGED <<i, tables, clean>>
       ELSE \E script \in SliceScripts :
              /\ clean' = (clean /\ ScriptClean(script))
              /\ IF SliceRun(SliceEntry, script).pc = "raised"
                 THEN Done("raised", "terminal") /\ UNCHANGED <<i, tables>>
                 ELSE /\ \E k \in 0..MaxWindows : tables' = tables + k
                      /\ i' = i + 1
                      /\ UNCHANGED <<pc, cont, cid, spans, mapRaised, outcome, err, completed>>
    /\ UNCHANGED <<cursorVars, intervals, spanReqs, served, sliceVars, flareVars, winVars, engineVars>>

\* api.py:665  the for loop ends and with it the generator
SlidingEnd ==
    /\ pc = "slide"
    /\ UNCHANGED call
    /\ i > Len(intervals)
    /\ Done("returned", "")
    /\ UNCHANGED <<cursorVars, intervals, i, tables, spanReqs, served, clean, sliceVars, flareVars, winVars, engineVars>>

\* api.py:400-411  the Cursor after construction
CursorInit ==
    /\ has_spans = FALSE
    /\ _spans = <<>>
    /\ _pool = NoPool
    /\ pc = "idle"
    /\ call = [op |-> "none", refresh |-> FALSE, inverted |-> FALSE, after |-> FALSE]
    /\ cont = "none"
    /\ cid = None
    /\ spans = <<>>
    /\ intervals = <<>>
    /\ i = 1
    /\ mapRaised = FALSE
    /\ tables = 0
    /\ outcome = "none"
    /\ err = ""
    /\ spanReqs = <<>>
    /\ served = <<>>
    /\ completed = FALSE
    /\ clean = TRUE

\* ------------------------------------------------ flare.py: Delta and Span

\* most minutes a Delta of the model carries
MaxMinutes == 1

\* flare.py:1093-1125  a Delta object: its seconds and minutes (the other
\* units enter timedelta the same way) and its identity as a Python
\* object (id)
Delta(seconds, minutes, id) == [seconds |-> seconds, minutes |-> minutes, id |-> id]

\* None in a place that holds a Delta
NoDelta == [seconds |-> 0, minutes |-> 0, id |-> None]

\* x is not None
Set(x) == x.id # None

\* the identity of a Delta the library creates itself
Fresh == 0

\* flare.py:17-36  delta() with no arguments
delta == Delta(0, 0, Fresh)

\* flare.py:1117-1125  Delta.timedelta, in seconds
timedelta(d) == d.seconds + 60 * d.minutes

\* flare.py:1146-1164  Delta.__call__: the units above zero, or seconds 0
DeltaCall(d) == LET r == [k \in {u \in {"seconds", "minutes"} : d[u] > 0} |-> d[k]] IN IF DOMAIN r # {} THEN r ELSE [seconds |-> 0]

\* flare.py:1202-1209  Delta.__lt__
Lt(a, b) == timedelta(a) < timedelta(b)

\* flare.py:1175-1182  Delta.__gt__
Gt(a, b) == timedelta(a) > timedelta(b)

\* flare.py:1166-1173  a != b on Deltas.  Delta defines __eq__ and no __ne__:
\* Python 3 derives != from __eq__, Python 2 falls back to object identity
Ne(a, b) == IF PY3 THEN timedelta(a) # timedelta(b) ELSE a.id # b.id

minPicksLonger(a1, a2) == IF Lt(a2, a1) THEN a1 ELSE a2

\* the builtin min of two Deltas: the second only if it is less
min(a1, a2) == IF Lt(a2, a1) THEN a2 ELSE a1

\* the builtin max of two Deltas: the second only if it is greater
max(a1, a2) == IF Gt(a2, a1) THEN a2 ELSE a1

\* the keyword arguments of span / then / Span
Keywords == {"min", "max", "exactly", "within", "after"}

\* kwargs.get(k)
Get(kwargs, k) == IF k \in DOMAIN kwargs THEN kwargs[k] ELSE NoDelta

\* flare.py:968-969  Span.__init__ raises FlareSyntaxError
SpanRaises(q) == Len(q) < 1

\* flare.py:971-976  Span.__init__
Span(q, kwargs) == [query |-> q, _within |-> Get(kwargs, "within"), _after |-> Get(kwargs, "after"), _min_width |-> Get(kwargs, "min"), _max_width |-> Get(kwargs, "max"), _width |-> Get(kwargs, "exactly")]

\* no Span (a Span has at least one sub-expression)
NoSpan == Span(<<>>, <<>>)

\* flare.py:1241-1242  merge.delta_or_first
delta_or_first(width1, width2) == IF Ne(width1, width2) THEN delta ELSE width1

\* flare.py:1233-1239  merge.go, r being op(a1, a2)
go(r, a1, a2) == IF ~Set(a1) \/ ~Set(a2) THEN (IF Set(a1) THEN a1 ELSE a2) ELSE r

mergeKeepsInner(s1, s2) == s2

\* flare.py:1217-1250  merge
merge(s1, s2) == [query |-> s2.query, _within |-> go(min(s1._within, s2._within), s1._within, s2._within), _after |-> go(max(s1._after, s2._after), s1._after, s2._after), _min_width |-> go(max(s1._min_width, s2._min_width), s1._min_width, s2._min_width), _max_width |-> go(min(s1._max_width, s2._max_width), s1._max_width, s2._max_width), _width |-> go(delta_or_first(s1._width, s2._width), s1._width, s2._width)]

\* the Deltas a caller creates as the object id
Deltas(id) == {Delta(s, m, id) : s \in {0, 1, 60}, m \in 0..MaxMinutes}

\* the keyword arguments that pass d under some of the names of K
KwargsOf(K, d) == UNION {[ks -> {d}] : ks \in SUBSET K}

\* the sub-expressions of the model
Conds == {"a", "b"}

\* flare.py:1072-1074  Span.__call__ on a Span whose sole sub-expression is
\* a Span: merge(self, self.query[0])
Merge ==
    /\ merged = NoSpan
    /\ Len(outer.query) = 1
    /\ merged' = merge(outer, outer.query[1])
    /\ UNCHANGED <<outer, inner>>
    /\ UNCHANGED <<sliceVars, cursorVars, callVars, histVars, winVars, engineVars, builderVars>>

\* no Span to merge
MergeIdle ==
    /\ outer = <<>>
    /\ inner = <<>>
    /\ merged = <<>>

\* Span(Span(c, **kw2), **kw1): the keyword arguments of either Span pass
\* one Delta; the two Deltas are two objects, or one and the same
MergeInit ==
    /\ \E d1 \in Deltas(1) : \E d2 \in Deltas(2) \cup {d1} : \E kw1 \in KwargsOf(Keywords, d1) : \E kw2 \in KwargsOf(Keywords, d2) :
         /\ inner = Span(<<"a">>, kw2)
         /\ outer = Span(<<inner>>, kw1)
    /\ merged = NoSpan

\* ------------------------------------- flare.py: Select, Serial, Span.then

\* most segments a query of the model is given
MaxSegments == 3

\* flare.py:1060-1070  Span.__call__: the value of d['for']
ForOf(s) == IF Set(s._width) THEN DeltaCall(s._width) ELSE [k \in {w \in {"at-least", "at-most"} : Set(IF w = "at-least" THEN s._min_width ELSE s._max_width)} |-> DeltaCall(IF k = "at-least" THEN s._min_width ELSE s._max_width)]

\* flare.py:1052-1070  Span.__call__: the constraint keys of d
SpanKeys(s) == {k \in {"within", "after", "for"} : CASE k = "within" -> Set(s._within) [] k = "after" -> Set(s._after) [] OTHER -> DOMAIN ForOf(s) # {}}

\* flare.py:1072-1082  Span.__call__: the keys that hold the sub-expressions
\* (a sole condition c is kept as 'cond': c in place of the keys of c())
BodyKeys(s) == IF Len(s.query) = 1 THEN {"type", "cond"} ELSE {"expr", "args"}

\* flare.py:1050-1083  Span.__call__ of a Span over conditions
SpanCall(s) == [k \in SpanKeys(s) \cup BodyKeys(s) |-> CASE k = "within" -> DeltaCall(s._within) [] k = "after" -> DeltaCall(s._after) [] k = "for" -> ForOf(s) [] k = "type" -> "span" [] k = "cond" -> s.query[1] [] k = "expr" -> "&&" [] OTHER -> s.query]

\* isinstance(x, Serial): a Serial is known by its query alone
IsSerial(x) == DOMAIN x = {"query"}

\* flare.py:910-915  Serial.__init__: the query, a Serial among the
\* arguments giving its own elements in its place
RECURSIVE Serial(_)
Serial(q) == IF Len(q) = 0 THEN <<>> ELSE (IF IsSerial(Head(q)) THEN Head(q).query ELSE <<Head(q)>>) \o Serial(Tail(q))

\* flare.py:935-937  Serial.__call__
SerialCall(query) == [type |-> "serial", conds |-> [j \in DOMAIN query |-> SpanCall(query[j])]]

SelectCallAlwaysSerial(query) == SerialCall(Serial(query))

\* flare.py:279-284  Select.__call__: the value of s['select']
SelectCall(query) == IF Len(query) = 0 THEN [expr |-> "true"] ELSE IF Len(query) = 1 THEN SpanCall(query[1]) ELSE SerialCall(Serial(query))

SelectSpanRaisesOnKeywordsOnly(q, kwargs, query) == \E k \in DOMAIN kwargs : k \notin {"min", "max", "exactly"}

\* flare.py:234-242  Select.span raises FlareSyntaxError
SelectSpanRaises(q, kwargs, query) == (\E k \in DOMAIN kwargs : k \notin {"min", "max", "exactly"}) \/ Len(query) > 0 \/ SpanRaises(q)

\* flare.py:263-264, 930-931, 1046-1047  then: the default gap
ThenKwargs(kwargs) == IF "after" \notin DOMAIN kwargs /\ "within" \notin DOMAIN kwargs THEN [k \in DOMAIN kwargs \cup {"within"} |-> IF k = "within" THEN delta ELSE kwargs[k]] ELSE kwargs

\* the sub-expression lists a caller passes
Qs == {<<>>, <<"a">>, <<"a", "b">>}

\* the keyword arguments a caller passes
BuilderKwargs == {[k \in K |-> Delta(1, 0, 1)] : K \in {{}, {"within"}, {"after"}, {"min"}, {"exactly"}}}

\* no call made so far
NoCall == [op |-> "none", q |-> <<>>, kwargs |-> <<>>]

\* nothing serialized since the last builder call
NoAst == [ast |-> "none"]

\* a failed builder call
Raise == raised' = "FlareSyntaxError" /\ erred' = lastCall'.op /\ UNCHANGED <<root, _query, how>>

\* a builder call that made the caller's object a kind with segments qs
Built(kind, qs) == raised' = "" /\ root' = kind /\ _query' = qs /\ how' = Append(how, lastCall') /\ UNCHANGED erred

\* flare.py:220-243  Select.span(*q, **kwargs)
SelectSpan ==
    /\ root = "Select"
    /\ \E q \in Qs : \E kwargs \in BuilderKwargs :
         /\ lastCall' = [op |-> "span", q |-> q, kwargs |-> kwargs]
         /\ IF SelectSpanRaises(q, kwargs, _query) THEN Raise ELSE Built("Select", Append(_query, Span(q, kwargs)))
    /\ ast' = NoAst
    /\ UNCHANGED <<sliceVars, cursorVars, callVars, histVars, winVars, engineVars, mergeVars, _stream, cond>>

\* flare.py:245-266  Select.then(*q, **kwargs)
SelectThen ==
    /\ root = "Select"
    /\ Len(_query) < MaxSegments
    /\ \E q \in Qs : \E kwargs \in BuilderKwargs :
         /\ lastCall' = [op |-> "then", q |-> q, kwargs |-> kwargs]
         /\ IF Len(_query) = 0 \/ SpanRaises(q) THEN Raise ELSE Built("Select", Append(_query, Span(q, ThenKwargs(kwargs))))
    /\ ast' = NoAst
    /\ UNCHANGED <<sliceVars, cursorVars, callVars, histVars, winVars, engineVars, mergeVars, _stream, cond>>

\* flare.py:1033-1048  Span.then(*q, **kwargs)
SpanThen ==
    /\ root = "Span"
    /\ \E q \in Qs : \E kwargs \in BuilderKwargs :
         /\ lastCall' = [op |-> "then", q |-> q, kwargs |-> kwargs]
         /\ IF SpanRaises(q) THEN Raise ELSE Built("Serial", Serial(<<_query[1], Span(q, ThenKwargs(kwargs))>>))
    /\ ast' = NoAst
    /\ UNCHANGED <<sliceVars, cursorVars, callVars, histVars, winVars, engineVars, mergeVars, _stream, cond>>

\* flare.py:994-1002  Span.__rshift__(q) with q = Span(*qq, **kwargs)
SpanRshift ==
    /\ root = "Span"
    /\ \E qq \in Qs \ {<<>>} : \E kwargs \in BuilderKwargs :
         /\ lastCall' = [op |-> "rshift", q |-> qq, kwargs |-> kwargs]
         /\ Built("Serial", Serial(<<_query[1], Span(qq, kwargs)>>))
    /\ ast' = NoAst
    /\ UNCHANGED <<sliceVars, cursorVars, callVars, histVars, winVars, engineVars, mergeVars, _stream, cond>>

\* flare.py:917-933  Serial.then(*q, **kwargs)
SerialThen ==
    /\ root = "Serial"
    /\ Len(_query) < MaxSegments
    /\ \E q \in Qs : \E kwargs \in BuilderKwargs :
         /\ lastCall' = [op |-> "then", q |-> q, kwargs |-> kwargs]
         /\ IF SpanRaises(q) THEN Raise ELSE Built("Serial", Append(_query, Span(q, ThenKwargs(kwargs))))
    /\ ast' = NoAst
    /\ UNCHANGED <<sliceVars, cursorVars, callVars, histVars, winVars, engineVars, mergeVars, _stream, cond>>

\* flare.py:1344-1346  ast(query): query() of the object the caller holds
Ast ==
    /\ root # "none"
    /\ lastCall' = [op |-> "ast", q |-> <<>>, kwargs |-> <<>>]
    /\ ast' = CASE root = "Select" -> SelectCall(_query) [] root = "Serial" -> SerialCall(_query) [] OTHER -> SpanCall(_query[1])
    /\ raised' = ""
    /\ UNCHANGED <<root, _query, how, erred>>
    /\ UNCHANGED <<sliceVars, cursorVars, callVars, histVars, winVars, engineVars, mergeVars, _stream, cond>>

\* ------------------------------------------------ flare.py: nested Spans

\* isinstance(x, Span)
IsSpan(x) == "_within" \in DOMAIN x

\* flare.py:1050-1083  Span.__call__, the merge branch included: a Span
\* whose sole sub-expression is a Span serializes as their merge does
RECURSIVE SpanCallNested(_)
SpanCallNested(s) == IF Len(s.query) = 1 /\ IsSpan(s.query[1]) THEN SpanCallNested(merge(s, s.query[1])) ELSE SpanCall(s)

\* Span(Span(...Span(*q, **kws[n])..., **kws[2]), **kws[1])
RECURSIVE Nest(_, _)
Nest(kws, q) == IF Len(kws) = 1 THEN Span(q, kws[1]) ELSE Span(<<Nest(Tail(kws), q)>>, Head(kws))

\* the conditions of an innermost Span: one, or two
ChainQs == {<<[cond |-> "a"]>>, <<[cond |-> "a"], [cond |-> "b"]>>}

\* the Deltas a caller passes at a level: a second, sixty seconds, a minute
ChainDeltas(id) == {Delta(1, 0, id), Delta(60, 0, id), Delta(0, 1, id)}

\* the keyword arguments of one level: one Delta under none, one or all of
\* the gap and duration names, or as the exact width
LevelKwargs(id) == {[k \in K |-> d] : K \in {{}, {"within"}, {"after"}, {"min"}, {"max"}, {"within", "after", "min", "max"}, {"exactly"}, {"min", "exactly"}}, d \in ChainDeltas(id)}

\* the keyword arguments of chains of two and of three levels
ChainKwargs == {<<a, b>> : a \in LevelKwargs(1), b \in LevelKwargs(2)} \cup {<<a, b, c>> : a \in LevelKwargs(1), b \in LevelKwargs(2), c \in LevelKwargs(3)}

\* flare.py:1050-1083  the outermost Span of a chain is serialized
NestedAst ==
    /\ ast = NoAst
    /\ ast' = SpanCallNested(outer)
    /\ UNCHANGED <<root, _query, how, lastCall, raised, erred, _stream, cond>>
    /\ UNCHANGED <<sliceVars, cursorVars, callVars, histVars, winVars, engineVars, mergeVars>>

\* the caller holds the outermost Span of a chain of Spans, each the sole
\* sub-expression of the next outer one
ChainInit ==
    /\ \E kws \in ChainKwargs : \E q \in ChainQs : outer = Nest(kws, q)
    /\ inner = <<>>
    /\ merged = <<>>

\* --------------------------------------- flare.py: paths and Conditions

\* the two path variants: event-local (EventPath) and stream-bound
PathKinds == {"EventPath", "StreamPath"}

\* a value by its Python class; a datetime is naive (tz "none") or aware
Val(kind, tz) == [kind |-> kind, tz |-> tz]

\* the operands of the model
Vals == {Val(k, "none") : k \in {"float", "int", "bool", "date", "datetime", "InPolygon", "InCircle", "str", "list"}} \cup {Val("datetime", z) : z \in {"UTC", "EST"}}

\* the classes of a value: bool derives from int and datetime from date
Bases(kind) == CASE kind = "bool" -> {"bool", "int"} [] kind = "datetime" -> {"datetime", "date"} [] OTHER -> {kind}

\* isinstance(val, cls)
IsInstance(val, cls) == cls \in Bases(val.kind)

\* flare.py:333-343  Cond.__init__
Cond(path, op, val) == [path |-> path, op |-> op, val |-> val]

\* no Condition
NoCond == Cond("none", "", Val("none", "none"))

\* flare.py:344-347  Cond.__init__ raises FlareSyntaxError
CondRaises(op, val) == (IsInstance(val, "InPolygon") \/ IsInstance(val, "InCircle")) /\ op \notin {"=="}

\* flare.py:607-618, 722-733  EventPath.__eq__, StreamPath.__eq__: the operator
EqOp(path, val) == IF val.kind = "list" THEN "in" ELSE "=="

\* flare.py:624-632, 739-747  EventPath.__ne__, StreamPath.__ne__: the operator
NeOp(path, val) == "!="

\* flare.py:367-389  Cond.__call__: the type tag, by the first class test
\* that holds
CondType(val) == IF IsInstance(val, "float") THEN "double" ELSE IF IsInstance(val, "bool") THEN "bool" ELSE IF IsInstance(val, "int") THEN "double" ELSE IF IsInstance(val, "InPolygon") THEN "polygon" ELSE IF IsInstance(val, "InCircle") THEN "circle" ELSE IF IsInstance(val, "date") THEN "date" ELSE IF IsInstance(val, "datetime") THEN "datetime" ELSE "string"

\* utils.py:31-35  iso8601: a naive datetime is taken as UTC
iso8601(val) == [form |-> "isoformat", of |-> val.kind, tz |-> IF val.tz = "none" THEN "UTC" ELSE val.tz]

\* flare.py:365-389  Cond.__call__: the serialized value: the value itself,
\* the region's own serialization, year-month-day, or iso8601
CondVal(val) == CASE CondType(val) \in {"polygon", "circle"} -> [form |-> "region", of |-> val.kind, tz |-> val.tz] [] CondType(val) = "date" -> [form |-> "Y-M-D", of |-> val.kind, tz |-> val.tz] [] CondType(val) = "datetime" -> iso8601(val) [] OTHER -> [form |-> "value", of |-> val.kind, tz |-> val.tz]

\* flare.py:359-398  Cond.__call__ (path.stream is a path again and true)
CondCall(c) == [op |-> IF CondType(c.val) \in {"polygon", "circle"} THEN "in" ELSE c.op, arg |-> [type |-> CondType(c.val), val |-> CondVal(c.val)], type |-> "span", path |-> c.path]

\* a path comparison that made a Condition, or raised in Cond.__init__
Compare(name, path, op, val) ==
    /\ lastCall' = [op |-> name, q |-> <<>>, kwargs |-> <<>>]
    /\ IF CondRaises(op, val)
       THEN raised' = "FlareSyntaxError" /\ erred' = name /\ UNCHANGED <<root, cond, how>>
       ELSE raised' = "" /\ root' = "Cond" /\ cond' = Cond(path, op, val) /\ how' = <<lastCall'>> /\ UNCHANGED erred
    /\ ast' = NoAst
    /\ UNCHANGED <<_query, _stream>>
    /\ UNCHANGED <<sliceVars, cursorVars, callVars, histVars, winVars, engineVars, mergeVars>>

\* flare.py:607-618, 722-733  path == val
PathEq ==
    /\ root = "none"
    /\ \E path \in PathKinds : \E val \in Vals : Compare("__eq__", path, EqOp(path, val), val)

\* flare.py:624-632, 739-747  path != val
PathNe ==
    /\ root = "none"
    /\ \E path \in PathKinds : \E val \in Vals : Compare("__ne__", path, NeOp(path, val), val)

\* flare.py:634-664, 749-779  path > val, path >= val, path <= val, path < val
PathOrder ==
    /\ root = "none"
    /\ \E path \in PathKinds : \E val \in Vals : \E op \in {">", ">=", "<=", "<"} : Compare("__order__", path, op, val)

\* flare.py:359-398  Cond.__call__
CondAst ==
    /\ root = "Cond"
    /\ ast = NoAst
    /\ lastCall' = [op |-> "ast", q |-> <<>>, kwargs |-> <<>>]
    /\ ast' = CondCall(cond)
    /\ raised' = ""
    /\ UNCHANGED <<root, cond, how, erred, _query, _stream>>
    /\ UNCHANGED <<sliceVars, cursorVars, callVars, histVars, winVars, engineVars, mergeVars>>

CondNext == PathEq \/ PathNe \/ PathOrder \/ CondAst

\* ------------------------------------------------------- flare.py: Switch

\* most condition groups a Switch of the model is given
MaxGroups == 3

\* the conditions a caller passes to Switch
SwitchConds == {Cond(path, op, Val("int", "none")) : path \in PathKinds, op \in {"==", ">"}}

\* the condition groups a caller passes to Switch: none, one or two
Groups == {<<>>} \cup {<<c>> : c \in SwitchConds} \cup {<<c, d>> : c \in SwitchConds, d \in SwitchConds}

\* flare.py:130-135  Switch.__init__ raises FlareSyntaxError
SwitchRaises(q) == \E j \in DOMAIN q : q[j].path # "EventPath"

SwitchCallErrorUnderOne(query, stream) == IF Len(query) < 1 \/ (\E j \in DOMAIN query : Len(query[j]) = 0) THEN "FlareSyntaxError" ELSE IF stream = None THEN "TypeError" ELSE ""

\* flare.py:169-184  Switch.__call__: what it raises, "" if nothing; the
\* call of a _stream that is None is a TypeError
SwitchCallError(query, stream) == IF Len(query) <= 1 \/ (\E j \in DOMAIN query : Len(query[j]) = 0) THEN "FlareSyntaxError" ELSE IF stream = None THEN "TypeError" ELSE ""

\* flare.py:173-184  Switch.__call__
SwitchCall(query, stream) == [type |-> "switch", conds |-> [j \in DOMAIN query |-> IF Len(query[j]) > 1 THEN [type |-> "&&", args |-> [n \in DOMAIN query[j] |-> CondCall(query[j][n])]] ELSE CondCall(query[j][1])], stream |-> [name |-> stream]]

\* flare.py:125-138  Switch(*q)
SwitchNew ==
    /\ root = "none"
    /\ \E q \in Groups :
         /\ lastCall' = [op |-> "Switch", q |-> q, kwargs |-> <<>>]
         /\ IF SwitchRaises(q)
            THEN raised' = "FlareSyntaxError" /\ erred' = "Switch" /\ UNCHANGED <<root, _query>>
            ELSE raised' = "" /\ root' = "Switch" /\ _query' = <<q>> /\ UNCHANGED erred
    /\ ast' = NoAst
    /\ UNCHANGED <<how, _stream, cond>>
    /\ UNCHANGED <<sliceVars, cursorVars, callVars, histVars, winVars, engineVars, mergeVars>>

\* flare.py:140-148  Switch.__rshift__(nxt) with nxt = Switch(*q): a new,
\* unbound Switch
SwitchRshift ==
    /\ root = "Switch"
    /\ Len(_query) < MaxGroups
    /\ \E q \in {g \in Groups : ~SwitchRaises(g)} :
         /\ lastCall' = [op |-> "rshift", q |-> q, kwargs |-> <<>>]
         /\ _query' = _query \o <<q>>
    /\ _stream' = None
    /\ raised' = ""
    /\ ast' = NoAst
    /\ UNCHANGED <<root, how, erred, cond>>
    /\ UNCHANGED <<sliceVars, cursorVars, callVars, histVars, winVars, engineVars, mergeVars>>

\* flare.py:150-165, 527-529  stream(switch): Switch._bind; a bound Switch
\* refuses to be bound again
SwitchBind ==
    /\ root = "Switch"
    /\ lastCall' = [op |-> "bind", q |-> <<>>, kwargs |-> <<>>]
    /\ IF _stream # None
       THEN raised' = "Exception" /\ erred' = "bind" /\ UNCHANGED _stream
       ELSE raised' = "" /\ _stream' = 1 /\ UNCHANGED erred
    /\ ast' = NoAst
    /\ UNCHANGED <<root, _query, how, cond>>
    /\ UNCHANGED <<sliceVars, cursorVars, callVars, histVars, winVars, engineVars, mergeVars>>

\* flare.py:167-184  Switch.__call__
SwitchAst ==
    /\ root = "Switch"
    /\ lastCall' = [op |-> "ast", q |-> <<>>, kwargs |-> <<>>]
    /\ raised' = SwitchCallError(_query, _stream)
    /\ ast' = IF raised' = "" THEN SwitchCall(_query, _stream) ELSE NoAst
    /\ erred' = IF raised' = "" THEN erred ELSE "ast"
    /\ UNCHANGED <<root, _query, how, _stream, cond>>
    /\ UNCHANGED <<sliceVars, cursorVars, callVars, histVars, winVars, engineVars, mergeVars>>

SwitchNext == SwitchNew \/ SwitchRshift \/ SwitchBind \/ SwitchAst

\* no query is being built on
BuilderIdle ==
    /\ root = "none"
    /\ _query = <<>>
    /\ how = <<>>
    /\ lastCall = NoCall
    /\ raised = ""
    /\ erred = ""
    /\ ast = NoAst
    /\ _stream = None
    /\ cond = NoCond

\* flare.py:207-218, 955-976  the caller holds Select() or Span(*q, **kwargs)
BuilderInit ==
    /\ root \in {"Select", "Span"}
    /\ IF root = "Select"
       THEN _query = <<>> /\ how = <<>>
       ELSE \E q \in Qs \ {<<>>} : \E kwargs \in BuilderKwargs : _query = <<Span(q, kwargs)>> /\ how = <<[op |-> "Span", q |-> q, kwargs |-> kwargs]>>
    /\ lastCall = NoCall
    /\ raised = ""
    /\ erred = ""
    /\ ast = NoAst
    /\ _stream = None
    /\ cond = NoCond

BuilderNext == SelectSpan \/ SelectThen \/ SpanThen \/ SpanRshift \/ SerialThen \/ Ast


\* ------------------------------------------- api.py: sliding windows

\* the longest lookback, horizon and slide of the model, in seconds
MaxLookback == 2
MaxHorizon == 1
MaxSlide == 2
\* the longest period of the frequency grid, in seconds
MaxFreq == 2
\* most periods between the first and the last row of a resampled frame
MaxRows == 3

Max(S) == CHOOSE x \in S : \A y \in S : y <= x

Min(S) == CHOOSE x \in S : \A y \in S : x <= y

\* api.py:673  fts = max(fr[k]['.ts'][0] for k in fr)
fts == Max({fr[k].first : k \in DOMAIN fr})

\* api.py:674  lts = min(fr[k]['.ts'][-1] for k in fr) + timedelta(seconds=1)
lts == Min({fr[k].last : k \in DOMAIN fr}) + 1

\* api.py:669-684  the timestamps of the rows of dff: every frame holds a
\* row per grid point from its first to its last timestamp (resample and
\* ffill), and the outer join holds the rows of all frames
dff == UNION {{t \in fr[k].first..fr[k].last : t % freq = 0} : k \in DOMAIN fr}

slidesGoesOnWhileWholeFits(start, end) == start + lookback + horizon + cslide <= end

\* api.py:635  while start + lookback + cslide <= end
slidesGoesOn(start, end) == start + lookback + cslide <= end

\* api.py:636  yield (start + cslide, start + cslide + lookback + horizon)
slidesYield(start) == <<start + cslide, start + cslide + lookback + horizon>>

\* api.py:688  pd.date_range(t0, t1, freq=freq, closed='right'): the grid
\* points t0 + k * freq up to t1, t0 itself left out
date_range(t0, t1) == {t \in t0..t1 : t # t0 /\ (t - t0) % freq = 0}

\* api.py:687  p = dff[(dff['.ts'] >= t0) & (dff['.ts'] < t1)]
Slice(t0, t1) == {t \in dff : t >= t0 /\ t < t1}

KeepAlways(p, t0, t1) == TRUE

\* api.py:688  if len(p) == len(pd.date_range(...))
Keep(p, t0, t1) == Cardinality(p) = Cardinality(date_range(t0, t1))

\* api.py:686-689 with 635-637  one iteration of `for t0, t1 in
\* slides(fts, lts)`: slides yields its next window, the iterator yields
\* the window's rows if they are as many as the grid's points
SlidingWindow ==
    /\ ~exhausted
    /\ slidesGoesOn(fts, lts)
    /\ LET w == slidesYield(fts)
           p == Slice(w[1], w[2])
       IN  /\ carved' = Append(carved, w)
           /\ yielded' = IF Keep(p, w[1], w[2]) THEN Append(yielded, [t0 |-> w[1], t1 |-> w[2], rows |-> p]) ELSE yielded
    /\ cslide' = cslide + slide
    /\ UNCHANGED <<lookback, horizon, slide, freq, fr, exhausted>>
    /\ UNCHANGED <<sliceVars, cursorVars, callVars, histVars, flareVars, winVars, frameVars, mapVars>>

\* api.py:635  the loop condition of slides fails: the generator ends and
\* with it the for loop
SlidingWindowsEnd ==
    /\ ~exhausted
    /\ ~slidesGoesOn(fts, lts)
    /\ exhausted' = TRUE
    /\ UNCHANGED <<lookback, horizon, slide, freq, fr, cslide, carved, yielded>>
    /\ UNCHANGED <<sliceVars, cursorVars, callVars, histVars, flareVars, winVars, frameVars, mapVars>>

\* no sliding call
SlidingIdle ==
    /\ lookback = 0
    /\ horizon = 0
    /\ slide = 0
    /\ freq = 0
    /\ fr = <<>>
    /\ cslide = 0
    /\ exhausted = TRUE
    /\ carved = <<>>
    /\ yielded = <<>>

\* the frames a slice resamples to: of one stream or of two, each from a
\* grid point to a later one
FrameEnds(f) == {[first |-> f * x[1], last |-> f * x[2]] : x \in {y \in (0..MaxRows) \X (0..MaxRows) : y[1] <= y[2]}}

Frames(f) == UNION {[K -> FrameEnds(f)] : K \in {{"a"}, {"a", "b"}}}

\* api.py:625-637, 665-685  sliding(lookback, horizon, slide, freq) has
\* joined the frames of an interval; slides starts with cslide zero (a
\* slide of zero never ends the loop: the model's slides are positive)
SlidingInit ==
    /\ lookback \in 0..MaxLookback
    /\ horizon \in 0..MaxHorizon
    /\ slide \in 1..MaxSlide
    /\ freq \in 1..MaxFreq
    /\ fr \in Frames(freq)
    /\ cslide = 0
    /\ exhausted = FALSE
    /\ carved = <<>>
    /\ yielded = <<>>

SlidingNext == SlidingWindow \/ SlidingWindowsEnd

\* ------------------------------------------ api.py: FrameGroup.dataframe

\* most tables a FrameGroup yields
MaxTables == 3

\* api.py:758  df.empty
Empty(df) == Len(df) = 0

SpanColumnFromZero(df, n) == [k \in DOMAIN df |-> [ts |-> df[k], span |-> 0, delta |-> df[k] - df[1]]]

\* api.py:759-761  the copy of df with the columns '.span' = i and
\* '.delta' = ts - df['.ts'][0]
SpanColumn(df, n) == [k \in DOMAIN df |-> [ts |-> df[k], span |-> n, delta |-> df[k] - df[1]]]

\* api.py:764  pd.concat(dfs)
RECURSIVE concat(_)
concat(objs) == IF objs = <<>> THEN <<>> ELSE Head(objs) \o concat(Tail(objs))

\* api.py:757-762  one iteration of `for i, df in enumerate(...)`
DataframeTake ==
    /\ enum < Len(frames)
    /\ LET df == frames[enum + 1] IN dfs' = IF ~Empty(df) THEN Append(dfs, SpanColumn(df, enum)) ELSE dfs
    /\ enum' = enum + 1
    /\ UNCHANGED <<frames, rdf>>
    /\ UNCHANGED <<sliceVars, cursorVars, callVars, histVars, flareVars, winVars, slidingVars, mapVars>>

\* api.py:763-768  the loop has ended: the concatenation, or an empty table
DataframeReturn ==
    /\ enum = Len(frames)
    /\ ~rdf.returned
    /\ rdf' = [returned |-> TRUE, rows |-> IF dfs # <<>> THEN concat(dfs) ELSE <<>>]
    /\ UNCHANGED <<frames, enum, dfs>>
    /\ UNCHANGED <<sliceVars, cursorVars, callVars, histVars, flareVars, winVars, slidingVars, mapVars>>

\* dataframe has not returned
NoFrame == [returned |-> FALSE, rows |-> <<>>]

\* no FrameGroup
FrameIdle ==
    /\ frames = <<>>
    /\ enum = 0
    /\ dfs = <<>>
    /\ rdf = NoFrame

\* the tables of an interval: empty (api.py:618), of one row, of two rows
Tables == {<<>>, <<1>>, <<1, 3>>}

\* api.py:754-756  dataframe() on a FrameGroup whose iterator yields frames
FrameInit ==
    /\ frames \in SeqsUpTo(Tables, MaxTables)
    /\ enum = 0
    /\ dfs = <<>>
    /\ rdf = NoFrame

FrameNext == DataframeTake \/ DataframeReturn

\* ------------------------------------------------- api.py: pool.map

\* most spans of a span list the pool maps _slice over
MaxTasks == 3

\* how many event pages the server holds for the k-th span
PagesOf(k) == 1 + (k % 2)

\* the page the server answers a request of the k-th span's _slice with:
\* one event of stream "a", known by the span and the page
PageFor(k, tok) == [kind |-> "ok", cursor |-> IF tok + 1 < PagesOf(k) THEN tok + 1 ELSE None, data |-> [events |-> << [stream |-> "a", id |-> 10 * k + tok] >>, streams |-> {"a"}]]

\* a task: waiting in the queue, or a _slice call with its own locals
Queued == [pc |-> "queued", c |-> None, retries |-> 0, streams |-> EmptyStreams]

\* the result of a task: none yet, the value _slice returned, or its raise
Pending == [state |-> "pending", streams |-> EmptyStreams]

MapResultInCompletionOrder(done, k, st) == LET slot == Min({j \in DOMAIN done : done[j].state = "pending"}) IN [done EXCEPT ![slot] = [state |-> st.pc, streams |-> SliceReturnValue(st)]]

\* multiprocessing.pool  map keeps the result of a task at the task's
\* place in the iterable
MapResult(done, k, st) == [done EXCEPT ![k] = [state |-> st.pc, streams |-> SliceReturnValue(st)]]

\* api.py:496/595  a worker of the pool takes the next task off the queue
\* and enters _slice (api.py:437-443); the pool has a worker per span up to
\* 16 (api.py:423)
WorkerTake ==
    /\ taken < Len(task)
    /\ Cardinality({k \in DOMAIN task : task[k].pc = "loop"}) < PoolSize(Len(task))
    /\ task' = [task EXCEPT ![taken + 1] = SliceEntry]
    /\ taken' = taken + 1
    /\ UNCHANGED <<results, data>>
    /\ UNCHANGED <<sliceVars, cursorVars, callVars, histVars, flareVars, winVars, slidingVars, frameVars>>

\* api.py:445-471  a worker runs one iteration of the loop of its _slice
\* call: the request is answered by a failure or by the page
WorkerRequest ==
    /\ \E k \in DOMAIN task :
         /\ task[k].pc = "loop"
         /\ task[k].c # None
         /\ \E resp \in {FailAnswer, PageFor(k, task[k].c)} :
              LET st == SliceIter(task[k], resp)
              IN  /\ task' = [task EXCEPT ![k] = st]
                  /\ results' = IF st.pc = "raised" THEN MapResult(results, k, st) ELSE results
    /\ UNCHANGED <<taken, data>>
    /\ UNCHANGED <<sliceVars, cursorVars, callVars, histVars, flareVars, winVars, slidingVars, frameVars>>

\* api.py:472  a worker's _slice call returns
WorkerReturn ==
    /\ \E k \in DOMAIN task :
         /\ task[k].pc = "loop"
         /\ task[k].c = None
         /\ task' = [task EXCEPT ![k].pc = "returned"]
         /\ results' = MapResult(results, k, [task[k] EXCEPT !.pc = "returned"])
    /\ UNCHANGED <<taken, data>>
    /\ UNCHANGED <<sliceVars, cursorVars, callVars, histVars, flareVars, winVars, slidingVars, frameVars>>

\* api.py:496/595  every task has its result: pool.map returns the results
\* in the order of the iterable, or raises what a task raised
MapReturn ==
    /\ data = <<>>
    /\ \A k \in DOMAIN results : results[k].state # "pending"
    /\ data' = IF \E k \in DOMAIN results : results[k].state = "raised" THEN << [state |-> "raised", streams |-> EmptyStreams] >> ELSE results
    /\ UNCHANGED <<task, taken, results>>
    /\ UNCHANGED <<sliceVars, cursorVars, callVars, histVars, flareVars, winVars, slidingVars, frameVars>>

\* no pool.map
MapIdle ==
    /\ task = <<>>
    /\ taken = 0
    /\ results = <<>>
    /\ data = <<>>

\* api.py:496/595  pool.map(..., self._spans) over a list of one span or
\* more: every task is in the queue
MapInit ==
    /\ \E n \in 1..MaxTasks :
         /\ task = [k \in 1..n |-> Queued]
         /\ results = [k \in 1..n |-> Pending]
    /\ taken = 0
    /\ data = <<>>

MapNext == WorkerTake \/ WorkerRequest \/ WorkerReturn \/ MapReturn

\* the parts of the frame engine that no call is using
EngineIdle == SlidingIdle /\ FrameIdle /\ MapIdle

\* ------------------------------------------- api.py: the dataset window

\* the latest time of the model, in microseconds
MaxTime == 3
\* the longest window of the model, in microseconds
MaxWindow == 3

\* utils.py:8  LEFT, CENTER, RIGHT = range(-1, 2)
LEFT == -1
CENTER == 0
RIGHT == 1

\* the minimum and the maximum sentinel time: the earliest and the latest
\* time of the model (datetime.min and datetime.max are out of its reach)
DTMIN == 0
DTMAX == MaxTime

\* x or d, for x None or a datetime (every datetime is true)
Or(x, d) == IF x = None THEN d ELSE x

\* a timedelta of x microseconds divided by 2: Python 3 rounds the result
\* to the nearest microsecond, a half to the even one; Python 2 floors it
Half(x) == IF x % 2 = 0 \/ ~PY3 THEN x \div 2 ELSE IF (x \div 2) % 2 = 0 THEN x \div 2 ELSE (x \div 2) + 1

\* a keyword argument of win(**sp), d being its default
Arg(sp, k, d) == IF k \in DOMAIN sp THEN sp[k] ELSE d

winAlignsRightOnStart(sp) == LET start == Or(Arg(sp, "start", DTMIN), DTMIN) end == Or(Arg(sp, "end", DTMAX), DTMAX) IN IF window = None THEN <<sp.cursor, start, end>> ELSE IF align = LEFT THEN <<sp.cursor, start, start + window>> ELSE IF align = RIGHT THEN <<sp.cursor, start - window, start>> ELSE <<sp.cursor, (start + Half(end - start)) - Half(window), (start + Half(end - start)) + Half(window)>>

winClampsToSpan(sp) == LET start == Or(Arg(sp, "start", DTMIN), DTMIN) end == Or(Arg(sp, "end", DTMAX), DTMAX) IN IF window = None THEN <<sp.cursor, start, end>> ELSE IF align = LEFT THEN <<sp.cursor, start, Min({end, start + window})>> ELSE IF align = RIGHT THEN <<sp.cursor, Max({start, end - window}), end>> ELSE <<sp.cursor, Max({start, (start + Half(end - start)) - Half(window)}), Min({end, (start + Half(end - start)) + Half(window)})>>

\* api.py:569-581  dataset.win(**sp)
win(sp) == LET start == Or(Arg(sp, "start", DTMIN), DTMIN) end == Or(Arg(sp, "end", DTMAX), DTMAX) IN IF window = None THEN <<sp.cursor, start, end>> ELSE IF align = LEFT THEN <<sp.cursor, start, start + window>> ELSE IF align = RIGHT THEN <<sp.cursor, end - window, end>> ELSE <<sp.cursor, (start + Half(end - start)) - Half(window), (start + Half(end - start)) + Half(window)>>

\* api.py:512-518  the spans of a page: start and end are each missing,
\* None, or a time, the start not after the end
WinSpans == {s \in UNION {[K \cup {"cursor"} -> {None} \cup DTMIN..DTMAX] : K \in SUBSET {"start", "end"}} : s.cursor = 1 /\ Or(Arg(s, "start", DTMIN), DTMIN) <= Or(Arg(s, "end", DTMAX), DTMAX)}

\* no span windowed so far
NoWin == <<0, 0, 0>>

\* api.py:594  win(**sp) for a span of the list
Win ==
    /\ \E s \in WinSpans :
         /\ span' = s
         /\ windowed' = win(s)
    /\ UNCHANGED <<window, align>>
    /\ UNCHANGED <<sliceVars, cursorVars, callVars, histVars, flareVars, engineVars>>

\* no dataset call
WinIdle ==
    /\ window = None
    /\ align = CENTER
    /\ span = [cursor |-> 0]
    /\ windowed = NoWin

\* api.py:553-567  dataset(window, align): window is None or a timedelta
WinInit ==
    /\ window \in {None} \cup 0..MaxWindow
    /\ align \in {LEFT, CENTER, RIGHT}
    /\ span = [cursor |-> 0]
    /\ windowed = NoWin

WinSpecInit ==
    /\ PY3 \in BOOLEAN
    /\ _limit = None
    /\ CursorInit
    /\ SliceInit
    /\ MergeIdle
    /\ BuilderIdle
    /\ WinInit
    /\ EngineIdle

WinSpec == WinSpecInit /\ [][Win]_vars

\* ------------------------------------------- the query algebra as a whole

\* no part of the query algebra is in use
FlareIdle == MergeIdle /\ BuilderIdle

MergeSpecInit ==
    /\ PY3 \in BOOLEAN
    /\ _limit = None
    /\ CursorInit
    /\ SliceInit
    /\ MergeInit
    /\ BuilderIdle
    /\ WinIdle
    /\ EngineIdle

MergeSpec == MergeSpecInit /\ [][Merge]_vars

ChainSpecInit ==
    /\ PY3 \in BOOLEAN
    /\ _limit = None
    /\ CursorInit
    /\ SliceInit
    /\ ChainInit
    /\ BuilderIdle
    /\ WinIdle
    /\ EngineIdle

ChainSpec == ChainSpecInit /\ [][NestedAst]_vars

BuilderSpecInit ==
    /\ PY3 = TRUE
    /\ _limit = None
    /\ CursorInit
    /\ SliceInit
    /\ MergeIdle
    /\ BuilderInit
    /\ WinIdle
    /\ EngineIdle

BuilderSpec == BuilderSpecInit /\ [][BuilderNext]_vars

\* the caller holds nothing yet: the first call makes a Switch or a Cond
ExprInit ==
    /\ PY3 = TRUE
    /\ _limit = None
    /\ CursorInit
    /\ SliceInit
    /\ MergeIdle
    /\ BuilderIdle
    /\ WinIdle
    /\ EngineIdle

SwitchSpec == ExprInit /\ [][SwitchNext]_vars

CondSpec == ExprInit /\ [][CondNext]_vars

\* ------------------------------------------------- the frames as a whole

\* the iterator of a sliding call carves the joined table of one interval
SlidingSpecInit ==
    /\ PY3 = TRUE
    /\ _limit = None
    /\ CursorInit
    /\ SliceInit
    /\ FlareIdle
    /\ WinIdle
    /\ SlidingInit
    /\ FrameIdle
    /\ MapIdle

SlidingSpec == SlidingSpecInit /\ [][SlidingNext]_vars

\* FrameGroup.dataframe concatenates the tables of a pass
FrameSpecInit ==
    /\ PY3 = TRUE
    /\ _limit = None
    /\ CursorInit
    /\ SliceInit
    /\ FlareIdle
    /\ WinIdle
    /\ SlidingIdle
    /\ FrameInit
    /\ MapIdle

FrameSpec == FrameSpecInit /\ [][FrameNext]_vars

\* the workers of the pool run the tasks of one pool.map
MapSpecInit ==
    /\ PY3 = TRUE
    /\ _limit = None
    /\ CursorInit
    /\ SliceInit
    /\ FlareIdle
    /\ WinIdle
    /\ SlidingIdle
    /\ FrameIdle
    /\ MapInit

MapSpec == MapSpecInit /\ [][MapNext]_vars

\* ---------------------------------------------------- the Cursor as a whole

\* the interpreter matters to the limit test of spans() alone
Init ==
    /\ _limit \in Limits
    /\ PY3 \in (IF _limit = None THEN {TRUE} ELSE BOOLEAN)
    /\ CursorInit
    /\ SliceInit
    /\ FlareIdle
    /\ WinIdle
    /\ EngineIdle

Next ==
    \/ CallSpans
    \/ CallLen
    \/ CallStats
    \/ CallPool
    \/ CallJson
    \/ CallDataset
    \/ CallSliding
    \/ SpansPageFails
    \/ SpansPageOk
    \/ MapTask
    \/ MapDone
    \/ DatasetYield
    \/ DatasetEnd
    \/ SlidingInterval
    \/ SlidingEnd

Spec == Init /\ [][Next]_vars

SliceNext == SliceCall \/ SlicePage \/ SliceFailure \/ SliceReturn

\* one _slice call on a Cursor that is otherwise left alone
SliceSpecInit ==
    /\ PY3 = TRUE
    /\ _limit = None
    /\ CursorInit
    /\ SliceInit
    /\ FlareIdle
    /\ WinIdle
    /\ EngineIdle

SliceSpec == SliceSpecInit /\ [][SliceNext]_vars

\* a step of a _slice call whose pages hold no events (the events of a page
\* play no part in what the loop requests next)
SliceBareNext == SliceNext /\ arrived' = <<>>

\* one _slice call over such pages, every request being answered and the
\* thread of the call going on to its next step
SliceFairSpec == SliceSpecInit /\ [][SliceBareNext]_vars /\ WF_vars(SliceBareNext)

\* ------------------------------------------------- claims about _slice

\* what the successful pages delivered for stream sid, in arrival order
Delivered(sid) == LET mine == SelectSeq(arrived, LAMBDA e : e.stream = sid) IN [j \in DOMAIN mine |-> [id |-> mine[j].id]]

\* C1: when no page fails more than 3 times in a row _slice does not raise,
\* and what it returns holds, per stream, exactly the events of the
\* successful pages in page-arrival order: nothing duplicated, dropped or
\* reordered, and a failed answer contributes nothing.
SliceReturnsPagesInOrder ==
    /\ slc.pc = "raised" => consec > max_retries
    /\ slc.pc = "returned" => /\ DOMAIN result = declared
                             /\ \A sid \in declared : result[sid] = [stream |-> sid, events |-> Delivered(sid)]

\* a call that returned after a retry, with three events of both streams,
\* those of stream "a" not in id order
SliceReturnsPagesInOrderWitness ==
    /\ slc.pc = "returned"
    /\ failed >= 1
    /\ "b" \in DOMAIN result
    /\ "a" \in DOMAIN result
    /\ result["b"].events # <<>>
    /\ result["a"].events = << [id |-> 2], [id |-> 1] >>

\* C2: _slice raises exactly when a request fails for the 4th consecutive
\* time; every successful page resets the retry counter to 0, so failures
\* separated by successful pages never add up to the bound.
SliceRaisesOnFourthConsecutiveFailure ==
    /\ consec <= max_retries + 1
    /\ slc.pc = "raised" <=> consec = max_retries + 1
    /\ lastResp = "ok" => slc.retries = 0
    /\ slc.pc \in {"loop", "returned"} => slc.retries = consec

\* a call that returned although more than 4 answers failed in total
SliceRaisesOnFourthConsecutiveFailureWitness ==
    /\ slc.pc = "returned"
    /\ failed > max_retries + 1

\* C3 as stated: the same continuation token is never requested more than
\* 3 times.
SliceAtMostThreeRequestsPerToken == requested.n <= max_retries

\* C3 amended: a token is requested at most 4 times in a row (the request
\* and 3 retries), and the 4th failed answer for it raises.
SliceAtMostFourRequestsPerToken ==
    /\ requested.n <= max_retries + 1
    /\ slc.pc = "raised" => requested.n = max_retries + 1
    /\ (requested.n = max_retries + 1 /\ lastResp # "ok") => slc.pc = "raised"

\* the 4th request for a token is answered by a page and the call goes on
SliceAtMostFourRequestsPerTokenWitness ==
    /\ requested.n = max_retries + 1
    /\ lastResp = "ok"
    /\ slc.pc = "loop"

\* C4: an authentication failure on an event page is never retried: the
\* first such answer ends the slice with an error.
SliceAuthFailureEndsSlice == lastResp = "auth" => slc.pc = "raised"

\* ------------------------------------------------ claims about the Cursor

NoDuplicates(q) == \A m, n \in DOMAIN q : q[m] = q[n] => m = n

\* each request after the first is for the token the page before returned
FollowsTokens(reqs, pages) ==
    /\ Len(reqs) = Len(pages)
    /\ reqs[1] = query_id
    /\ \A k \in 2..Len(reqs) : reqs[k] = pages[k - 1].cursor

RECURSIVE Concatenated(_)
Concatenated(pages) == IF pages = <<>> THEN <<>> ELSE Head(pages).spans \o Concatenated(Tail(pages))

\* min(16, n), as the claims state it
MinPoolMax(n) == IF n < PoolMax THEN n ELSE PoolMax

\* the spans() of the current call paginated and returned
SpansFetched ==
    /\ spanReqs # <<>>
    /\ pc # "spans_loop"
    /\ err \notin {"APIError", "TypeError: list >= int"}

\* C5: once a spans() call has succeeded, a step of any call other than
\* spans(refresh=True) issues no span-page request and leaves the cached
\* span list as it is; a spans(refresh=True) that returns has paginated
\* once: from the query handle, every page requested once.
SpanCacheKeptUntilRefresh ==
    [][ /\ (has_spans /\ ~(call'.op = "spans" /\ call'.refresh)) => (Len(spanReqs') <= Len(spanReqs) /\ has_spans' /\ _spans' = _spans)
        /\ (call'.op = "spans" /\ call'.refresh /\ outcome' = "returned") => (spanReqs' # <<>> /\ FollowsTokens(spanReqs', served') /\ NoDuplicates(spanReqs'))
      ]_vars

\* a json pass that returned over a cached, non-empty span list without a
\* single span-page request
SpanCacheKeptUntilRefreshWitness ==
    /\ pc = "idle"
    /\ call.op = "json"
    /\ outcome = "returned"
    /\ spanReqs = <<>>
    /\ _spans # <<>>

\* C6 as stated: a spans() pagination starts from the query handle, follows
\* the returned tokens, stops at the first page without a token, requests
\* every page once, and caches the pages' spans concatenated in page order.
SpansPaginatesToLastPage ==
    SpansFetched => /\ FollowsTokens(spanReqs, served)
                    /\ NoDuplicates(spanReqs)
                    /\ served[Len(served)].cursor = None
                    /\ has_spans
                    /\ _spans = Concatenated(served)

\* C6 amended: the same, for a Cursor created without a limit.
SpansPaginatesToLastPageUnlimited == _limit = None => SpansPaginatesToLastPage

\* a pagination over two pages of spans on a Cursor without a limit
SpansPaginatesToLastPageUnlimitedWitness ==
    /\ SpansFetched
    /\ _limit = None
    /\ Len(served) = 2
    /\ Len(served[1].spans) = 1
    /\ Len(served[2].spans) = 1
    /\ pc = "idle"

\* C7 as stated, for a pool that has been created: between calls the pool
\* is absent if the cached span list is empty, and a pool that exists has
\* size min(16, number of cached spans).
PoolSizedFromCachedSpans ==
    (pc = "idle" /\ has_spans) => /\ _spans = <<>> => ~Present(_pool)
                                  /\ Present(_pool) => _pool.processes = MinPoolMax(Len(_spans))

\* C7 amended: the pool comes into being only at a pool access that finds
\* a non-empty cached span list, running and with min(16, number of spans
\* cached at that moment) workers; once created it is never resized or
\* dropped, whatever a later spans(refresh=True) does to the cached list.
PoolSizedOnceWhenCreated ==
    [][ /\ (~Present(_pool) /\ Present(_pool')) => (has_spans' /\ _spans' # <<>> /\ _pool' = [processes |-> MinPoolMax(Len(_spans')), state |-> "RUN"])
        /\ Present(_pool) => (Present(_pool') /\ _pool'.processes = _pool.processes)
      ]_vars

\* a pool of 16 workers, created over 17 spans, on a Cursor whose cached
\* list a refresh has since cut to one span
PoolSizedOnceWhenCreatedWitness ==
    /\ Present(_pool)
    /\ _pool.processes = PoolMax
    /\ has_spans
    /\ Len(_spans) = 1

\* C8: when a json pass or a dataset pass (over the spans themselves) has
\* ended, by completion or by an error, the Cursor's worker pool has been
\* closed.
PassEndsWithPoolClosed ==
    (pc = "idle" /\ call.op \in {"json", "dataset"} /\ ~call.inverted /\ outcome \in {"returned", "raised"}) => _pool.state # "RUN"

\* C9: after a completed json or dataset pass, a further pass over a
\* non-empty cached span list, every request answered successfully, ends
\* without error.
MaterializationRestartable ==
    (pc = "idle" /\ call.op \in {"json", "dataset"} /\ ~call.inverted /\ call.after /\ clean /\ has_spans /\ _spans # <<>> /\ outcome \in {"returned", "raised"}) => outcome = "returned"

\* C10: a dataset or sliding pass that ends in the terminal pagination
\* error of an interval has handed no table to the caller.
NoTablesBeforeTerminalError ==
    (pc = "idle" /\ call.op \in {"dataset", "sliding"} /\ outcome = "raised" /\ err = "terminal") => tables = 0

\* ---------------------------------------------------- claims about merge

\* the smaller and the larger of two lengths in seconds
Shorter(x, y) == IF x <= y THEN x ELSE y
Longer(x, y) == IF x >= y THEN x ELSE y

\* both Spans of the merge set the attribute
BothSet(attr) == merged # NoSpan /\ Set(outer[attr]) /\ Set(inner[attr])

\* C11: when the outer and the inner Span of a merge both set a Duration,
\* the merged within is the shorter of the two and the merged after the
\* longer, the merged min duration is the longer and the merged max
\* duration the shorter, compared by their length in seconds; the merged
\* Duration is one of the two.
MergeKeepsTightestDurations ==
    /\ BothSet("_within") => /\ merged._within \in {outer._within, inner._within}
                             /\ timedelta(merged._within) = Shorter(timedelta(outer._within), timedelta(inner._within))
    /\ BothSet("_after") => /\ merged._after \in {outer._after, inner._after}
                            /\ timedelta(merged._after) = Longer(timedelta(outer._after), timedelta(inner._after))
    /\ BothSet("_min_width") => /\ merged._min_width \in {outer._min_width, inner._min_width}
                                /\ timedelta(merged._min_width) = Longer(timedelta(outer._min_width), timedelta(inner._min_width))
    /\ BothSet("_max_width") => /\ merged._max_width \in {outer._max_width, inner._max_width}
                                /\ timedelta(merged._max_width) = Shorter(timedelta(outer._max_width), timedelta(inner._max_width))

\* a merge of two Spans that set all four Durations, the outer ones longer
\* than the inner ones
MergeKeepsTightestDurationsWitness ==
    /\ \A attr \in {"_within", "_after", "_min_width", "_max_width"} : BothSet(attr)
    /\ timedelta(outer._within) > timedelta(inner._within)
    /\ merged._within = inner._within
    /\ merged._after = outer._after
    /\ merged._min_width = outer._min_width
    /\ merged._max_width = inner._max_width

\* C12: when both Spans of a merge set an exact width, widths of different
\* length merge to a zero duration and widths of equal length merge to a
\* width of that length.
MergeExactWidthKeptWhenEqual ==
    BothSet("_width") =>
        IF timedelta(outer._width) # timedelta(inner._width)
        THEN DeltaCall(merged._width) = [seconds |-> 0]
        ELSE timedelta(merged._width) = timedelta(outer._width)

\* ------------------------------------------- claims about the builders

\* the call that made segment j passed neither within nor after
NoGapArgument(j) == DOMAIN how[j].kwargs \cap {"within", "after"} = {}

\* the within of segment j is set and serializes to zero seconds
ZeroWithin(j) == Set(_query[j]._within) /\ DeltaCall(_query[j]._within) = [seconds |-> 0]

\* C13: in a Sequence built by then calls (on a Select, a Serial or a Span)
\* every non-first segment appended with neither within nor after carries
\* within = zero duration, serialized as {"seconds": 0}, and the first
\* segment carries neither within nor after.
ThenSequenceGapsDefaulted ==
    (Len(_query) >= 2 /\ \A j \in 2..Len(how) : how[j].op = "then") =>
        /\ \A j \in 2..Len(_query) : NoGapArgument(j) => ZeroWithin(j)
        /\ ~Set(_query[1]._within) /\ ~Set(_query[1]._after)

\* C14: the second element of the Sequence that >> made of two Spans has
\* within = zero duration when it was built with neither within nor after.
RshiftDefaultsWithin ==
    (root = "Serial" /\ how[2].op = "rshift" /\ NoGapArgument(2)) => ZeroWithin(2)

SelectSerializesCallsInOrder ==
    root = "Select" =>
        /\ \A j \in DOMAIN how : how[j].op = (IF j = 1 THEN "span" ELSE "then")
        /\ ast # NoAst =>
            /\ Len(how) = 0 => ast = [expr |-> "true"]
            /\ Len(how) = 1 => ast = SpanCall(Span(how[1].q, how[1].kwargs))
            /\ Len(how) >= 2 => /\ DOMAIN ast = {"type", "conds"}
                                /\ ast.type = "serial"
                                /\ Len(ast.conds) = Len(how)
                                /\ \A j \in DOMAIN how : ast.conds[j] = SpanCall(Span(how[j].q, IF j = 1 THEN how[j].kwargs ELSE ThenKwargs(how[j].kwargs)))

\* a Select serialized after span and two then calls
SelectSerializesCallsInOrderWitness ==
    /\ root = "Select"
    /\ ast # NoAst
    /\ Len(how) = 3
    /\ Len(ast.conds) = 3

\* ------------------------------- claims about Switches and Conditions

\* C17 as stated: a Transition-chain with fewer than two condition groups
\* fails when it is built, so that no such chain is ever held.
SwitchUnderTwoGroupsNeverBuilt ==
    root = "Switch" => Len(_query) >= 2

\* C17: a Transition-chain of event-local conditions is built without
\* error as one condition group, and a chain with fewer than two
\* condition groups raises the construction error when it is serialized.
SwitchUnderTwoGroupsRaisesWhenSerialized ==
    [][/\ (root = "none" /\ lastCall'.op = "Switch" /\ \A j \in DOMAIN lastCall'.q : lastCall'.q[j].path = "EventPath") =>
            raised' = "" /\ root' = "Switch" /\ Len(_query') = 1
       /\ (root = "Switch" /\ lastCall'.op = "ast" /\ Len(_query) < 2) =>
            raised' = "FlareSyntaxError" /\ ast' = NoAst]_vars

\* a chain of one non-empty condition group, bound to a stream, has been
\* serialized and that raised
SwitchUnderTwoGroupsRaisesWhenSerializedWitness ==
    /\ root = "Switch"
    /\ Len(_query) = 1
    /\ Len(_query[1]) > 0
    /\ _stream # None
    /\ lastCall.op = "ast"
    /\ raised = "FlareSyntaxError"

\* C18: for both path variants, path == val makes the operator "in" for a
\* list and "==" otherwise, and path != val makes it "not-in" for a list
\* and "!=" otherwise.
PathComparisonRewritesLists ==
    root = "Cond" =>
        /\ how[1].op = "__eq__" => cond.op = (IF cond.val.kind = "list" THEN "in" ELSE "==")
        /\ how[1].op = "__ne__" => cond.op = (IF cond.val.kind = "list" THEN "not-in" ELSE "!=")

\* the type tag claimed for a value of a kind
ClaimedTag(kind) == CASE kind \in {"float", "int"} -> "double" [] kind = "bool" -> "bool" [] kind = "date" -> "date" [] kind = "datetime" -> "datetime" [] kind = "InPolygon" -> "polygon" [] kind = "InCircle" -> "circle" [] OTHER -> "string"

\* C19: a serialized Condition tags its value by kind: float and int as
\* double, bool as bool, a date as date in year-month-day form, a datetime
\* as datetime in ISO-8601 form (UTC when naive), polygon and circle as
\* such, anything else as string.
CondTagsValueByKind ==
    (root = "Cond" /\ ast # NoAst) =>
        /\ ast.arg.type = ClaimedTag(cond.val.kind)
        /\ cond.val.kind = "date" => ast.arg.val.form = "Y-M-D"
        /\ cond.val.kind = "datetime" => ast.arg.val.form = "isoformat" /\ ast.arg.val.tz = (IF cond.val.tz = "none" THEN "UTC" ELSE cond.val.tz)

\* ------------------------------------------ claims about dataset windows

\* the start and the end of the span given to win, a missing or None one
\* replaced by the sentinel
SpanStart == Or(Arg(span, "start", DTMIN), DTMIN)
SpanEnd == Or(Arg(span, "end", DTMAX), DTMAX)

\* win has returned
Windowed == span # [cursor |-> 0]

\* what holds of the window whatever the align is not CENTER
WindowOffCenter ==
    /\ window = None => windowed[2] = SpanStart /\ windowed[3] = SpanEnd
    /\ (window # None /\ align = LEFT) => windowed[2] = SpanStart /\ windowed[3] = SpanStart + window
    /\ (window # None /\ align = RIGHT) => windowed[2] = SpanEnd - window /\ windowed[3] = SpanEnd

\* the distance of x from y
Dist(x, y) == IF x >= y THEN x - y ELSE y - x

\* C20 as stated: the window is [s, s+w) with LEFT, [e-w, e) with RIGHT,
\* [m-w/2, m+w/2) with CENTER, m = (s+e)/2 the midpoint of [s, e), and
\* [s, e) with no window, a missing s or e being the sentinel time.
WindowAlignedExactly ==
    Windowed =>
        /\ WindowOffCenter
        /\ (window # None /\ align = CENTER) => /\ 2 * windowed[2] = (SpanStart + SpanEnd) - window
                                                /\ 2 * windowed[3] = (SpanStart + SpanEnd) + window

\* C20: the window is [s, s+w) with LEFT, [e-w, e) with RIGHT and [s, e)
\* with no window, a missing s or e being the sentinel time; with CENTER
\* its ends are m-w/2 and m+w/2 when e-s and w are even numbers of
\* microseconds and within one microsecond of them otherwise.
WindowAlignedToMicrosecond ==
    Windowed =>
        /\ WindowOffCenter
        /\ (window # None /\ align = CENTER) => /\ Dist(2 * windowed[2], (SpanStart + SpanEnd) - window) <= 2
                                                /\ Dist(2 * windowed[3], (SpanStart + SpanEnd) + window) <= 2
                                                /\ ((SpanEnd - SpanStart) % 2 = 0 /\ window % 2 = 0) => /\ 2 * windowed[2] = (SpanStart + SpanEnd) - window
                                                                                                       /\ 2 * windowed[3] = (SpanStart + SpanEnd) + window

\* a centered window of an odd number of microseconds over a span without
\* a start, whose ends are not m-w/2 and m+w/2
WindowAlignedToMicrosecondWitness ==
    /\ Windowed
    /\ align = CENTER
    /\ window # None
    /\ window % 2 = 1
    /\ "start" \notin DOMAIN span
    /\ SpanStart = DTMIN
    /\ 2 * windowed[2] # (SpanStart + SpanEnd) - window

\* ------------------------------------------ claims about inverted passes

\* the minimum sentinel time as the start of an interval
MinSentinel == [at |-> "min", of |-> 0]

\* the gap intervals of a span list as claimed: from the minimum sentinel
\* time to the first span's start, then from each span's end to the next
\* span's start
ClaimedGaps(sp) == [k \in DOMAIN sp |-> IF k = 1 THEN [start |-> MinSentinel, end |-> StartOf(sp[1])] ELSE [start |-> EndOf(sp[k - 1]), end |-> StartOf(sp[k])]]

\* the spans() of an inverted dataset or sliding pass returns in this step
InvertedPassEnters ==
    /\ pc \in {"idle", "spans_loop"}
    /\ pc' # "spans_loop"
    /\ call'.op \in {"dataset", "sliding"}
    /\ call'.inverted
    /\ has_spans'
    /\ err' \notin {"APIError", "TypeError: list >= int"}

\* C21: in inverted mode, over a cached list of N >= 1 spans, dataset and
\* sliding go on to process exactly the N gap intervals in order, the
\* leading one from the minimum sentinel time to the first span's start;
\* over an empty list they process no interval.
InvertedPassProcessesGaps ==
    [][InvertedPassEnters =>
          /\ _spans' # <<>> => /\ pc' \in {"map", "slide"}
                               /\ [k \in DOMAIN intervals' |-> [start |-> intervals'[k].start, end |-> intervals'[k].end]] = ClaimedGaps(_spans')
          /\ _spans' = <<>> => (pc' = "idle" \/ intervals' = <<>>)]_vars

\* ------------------------------------------ claims about sliding windows

\* the k-th window (k = 0, 1, ...) of an interval that starts at start
KthWindow(start, k) == <<start + k * slide, start + k * slide + lookback + horizon>>

\* how many k = 0, 1, ... have start + k * slide + reach within end
Fitting(start, end, reach) == Cardinality({k \in 0..end : start + k * slide + reach <= end})

\* C22 as stated: within the interval [start, end] the windows carved are
\* [start + k*slide, start + k*slide + lookback + horizon) for k = 0, 1,
\* ... in increasing k, for as long as the whole window fits within end;
\* no carved window extends past end.
SlidesCarvesWhileWindowFits ==
    /\ \A k \in DOMAIN carved : carved[k] = KthWindow(fts, k - 1) /\ carved[k][2] <= lts
    /\ exhausted => Len(carved) = Fitting(fts, lts, lookback + horizon)

\* C22: within the interval [start, end] the windows carved are
\* [start + k*slide, start + k*slide + lookback + horizon) for k = 0, 1,
\* ... in increasing k, for as long as the lookback part of the window
\* fits within end; a carved window extends past end by horizon at most.
SlidesCarvesWhileLookbackFits ==
    /\ \A k \in DOMAIN carved : carved[k] = KthWindow(fts, k - 1) /\ carved[k][2] <= lts + horizon
    /\ exhausted => Len(carved) = Fitting(fts, lts, lookback)

\* slides has carved two windows and ended, the last one extending past
\* the interval's end
SlidesCarvesWhileLookbackFitsWitness ==
    /\ exhausted
    /\ horizon > 0
    /\ Len(carved) = 2
    /\ carved[2][2] > lts

\* how many points the frequency grid has for a window of a width
GridPoints(width) == width \div freq

\* how many rows of the joined table fall into the window w
RowsIn(w) == Cardinality({t \in dff : w[1] <= t /\ t < w[2]})

\* C23: every window the sliding iterator yields holds exactly as many
\* rows as the frequency grid has points for the window's width; a carved
\* window whose slice holds fewer or more rows is skipped; the rows of a
\* yielded window are the rows of the table that fall into it, none
\* added.
SlidingYieldsFullWindowsOnly ==
    /\ [k \in DOMAIN yielded |-> <<yielded[k].t0, yielded[k].t1>>] = SelectSeq(carved, LAMBDA w : RowsIn(w) = GridPoints(w[2] - w[1]))
    /\ \A k \in DOMAIN yielded : /\ Cardinality(yielded[k].rows) = GridPoints(yielded[k].t1 - yielded[k].t0)
                                 /\ yielded[k].rows = {t \in dff : yielded[k].t0 <= t /\ t < yielded[k].t1}

\* of three carved windows the first has been yielded with two rows and
\* the last, short of rows, skipped
SlidingYieldsFullWindowsOnlyWitness ==
    /\ exhausted
    /\ Len(carved) = 3
    /\ Len(yielded) >= 1
    /\ yielded[1].t0 = carved[1][1]
    /\ Cardinality(yielded[1].rows) = 2
    /\ RowsIn(carved[3]) < GridPoints(carved[3][2] - carved[3][1])

\* -------------------------------------- claims about FrameGroup.dataframe

\* the interval indices of the concatenated table, one per run of rows
\* with the same index
RECURSIVE Indices(_)
Indices(rows) == IF rows = <<>> THEN <<>> ELSE IF Len(rows) >= 2 /\ rows[1].span = rows[2].span THEN Indices(Tail(rows)) ELSE <<rows[1].span>> \o Indices(Tail(rows))

StrictlyIncreasing(q) == \A m, n \in DOMAIN q : m < n => q[m] < q[n]

\* dataframe has returned a table that is not empty
DataframeConcatenated == rdf.returned /\ rdf.rows # <<>>

\* C24 as stated: the interval indices of the concatenated table are
\* strictly increasing and start at 0, whatever tables the group yields,
\* empty ones included.
DataframeIndicesStartAtZero ==
    DataframeConcatenated => /\ StrictlyIncreasing(Indices(rdf.rows))
                     /\ rdf.rows[1].span = 0

\* C24: every table that is not empty enters the concatenated table with
\* its position among the yielded tables as interval index, so that the
\* indices are strictly increasing; they start at 0 when the first table
\* yielded is not empty.
DataframeIndicesArePositions ==
    DataframeConcatenated => /\ StrictlyIncreasing(Indices(rdf.rows))
                     /\ Indices(rdf.rows) = SelectSeq([k \in DOMAIN frames |-> k - 1], LAMBDA n : frames[n + 1] # <<>>)
                     /\ (frames[1] # <<>> => rdf.rows[1].span = 0)

\* the concatenation of an empty table and two that are not: its indices
\* are 1 and 2
DataframeIndicesArePositionsWitness ==
    /\ DataframeConcatenated
    /\ frames[1] = <<>>
    /\ Len(frames) = 3
    /\ Indices(rdf.rows) = <<1, 2>>

\* --------------------------------------------- claims about nested Spans

\* the Spans of a chain, the outermost first
RECURSIVE Levels(_)
Levels(s) == IF Len(s.query) = 1 /\ IsSpan(s.query[1]) THEN <<s>> \o Levels(s.query[1]) ELSE <<s>>

\* the levels of the chain that set an attribute
Setting(attr) == {j \in DOMAIN Levels(outer) : Set(Levels(outer)[j][attr])}

\* the lengths in seconds an attribute is set to over the chain
Lengths(attr) == {timedelta(Levels(outer)[j][attr]) : j \in Setting(attr)}

\* the length in seconds of a serialized Duration
Seconds(units) == (IF "seconds" \in DOMAIN units THEN units.seconds ELSE 0) + 60 * (IF "minutes" \in DOMAIN units THEN units.minutes ELSE 0)

\* the node is not nested: it holds the conditions of the innermost Span
OverInnermost ==
    LET q == Levels(outer)[Len(Levels(outer))].query
    IN  IF Len(q) = 1 THEN "type" \in DOMAIN ast /\ ast.type = "span" /\ ast.cond = q[1] ELSE "expr" \in DOMAIN ast /\ ast.expr = "&&" /\ ast.args = q

\* the node's within is the shortest and its after the longest of the
\* chain, present when a level sets it and that level's when only one does
TightestGaps ==
    /\ "within" \in DOMAIN ast <=> Setting("_within") # {}
    /\ Setting("_within") # {} => Seconds(ast.within) = Min(Lengths("_within"))
    /\ \A j \in Setting("_within") : Setting("_within") = {j} => ast.within = DeltaCall(Levels(outer)[j]._within)
    /\ "after" \in DOMAIN ast <=> Setting("_after") # {}
    /\ Setting("_after") # {} => Seconds(ast.after) = Max(Lengths("_after"))
    /\ \A j \in Setting("_after") : Setting("_after") = {j} => ast.after = DeltaCall(Levels(outer)[j]._after)

\* the node's min duration is the longest and its max duration the
\* shortest of the chain
TightestDurations ==
    /\ Setting("_min_width") # {} => /\ "for" \in DOMAIN ast
                                     /\ "at-least" \in DOMAIN ast["for"]
                                     /\ Seconds(ast["for"]["at-least"]) = Max(Lengths("_min_width"))
    /\ Setting("_max_width") # {} => /\ "for" \in DOMAIN ast
                                     /\ "at-most" \in DOMAIN ast["for"]
                                     /\ Seconds(ast["for"]["at-most"]) = Min(Lengths("_max_width"))

\* C25 as stated: a chain of k >= 2 Spans, each the sole sub-expression of
\* the next outer one, serializes to one node over the innermost Span's
\* conditions whose within is the minimum, after the maximum, min duration
\* the maximum and max duration the minimum over the levels that set the
\* field, whichever level carries which value.
ChainSerializesToTightestNode ==
    ast # NoAst => OverInnermost /\ TightestGaps /\ TightestDurations

\* C25: the same, the min and the max duration being in the node when no
\* level of the chain sets an exact width; when a level does, the node's
\* duration constraint is an exact width alone.
ChainSerializesToTightestNodeOrExactWidth ==
    ast # NoAst =>
        /\ OverInnermost
        /\ TightestGaps
        /\ IF Setting("_width") = {}
           THEN TightestDurations
           ELSE "for" \in DOMAIN ast /\ DOMAIN ast["for"] # {} /\ DOMAIN ast["for"] \subseteq {"seconds", "minutes"}

\* a chain of three Spans that all set the gaps and the durations, the
\* middle one to a second and the others to a minute in either unit, has
\* been serialized
ChainSerializesToTightestNodeOrExactWidthWitness ==
    /\ ast # NoAst
    /\ Len(Levels(outer)) = 3
    /\ \A attr \in {"_within", "_after", "_min_width", "_max_width"} : Setting(attr) = {1, 2, 3}
    /\ Lengths("_within") = {1, 60}
    /\ timedelta(Levels(outer)[2]._within) = 1
    /\ Levels(outer)[1]._within.minutes # Levels(outer)[3]._within.minutes
    /\ ast.within = [seconds |-> 1]
    /\ Seconds(ast.after) = 60
    /\ Seconds(ast["for"]["at-least"]) = 60
    /\ ast["for"]["at-most"] = [seconds |-> 1]

\* ---------------------------------------- claims about _slice terminating

\* C26: over a finite chain of continuation tokens a _slice call ends
\* whatever requests fail: it returns, after the page without a token, or
\* it raises; no page is requested more than 4 times and the failed
\* requests of a call over N pages are at most 3 N + 1.
SliceTerminates ==
    /\ (slc.pc = "loop") ~> (slc.pc \in {"returned", "raised"})
    /\ [](slc.pc = "returned" => (lastResp = "ok" /\ slc.c = None))
    /\ [](requested.n <= max_retries + 1)
    /\ [](failed <= max_retries * MaxEventPages + 1)

\* a call has returned after the longest chain of pages, each requested
\* four times
SliceTerminatesWitness ==
    /\ slc.pc = "returned"
    /\ requested.tok = MaxEventPages - 1
    /\ requested.n = max_retries + 1
    /\ failed = max_retries * MaxEventPages

\* --------------------------------- claims about the reach of the window

PassOverNoSpansIsEmpty ==
    (pc = "idle" /\ call.op \in {"json", "dataset"} /\ outcome \in {"returned", "raised"} /\ err \notin {"APIError", "TypeError: list >= int"} /\ has_spans /\ _spans = <<>> /\ ~Present(_pool)) =>
        outcome = "returned" /\ tables = 0

\* ------------------------------------- claims about replacing the cache

\* C30: the cached span list is replaced only as a whole: the steps of a
\* pagination leave it as it is until the pagination returns, a
\* pagination that fails on a page leaves it as it was, and whenever it
\* changes it becomes the list of all pages the pagination was served.
SpanCacheReplacedWhole ==
    [][ /\ (pc = "spans_loop" /\ pc' = "spans_loop") => (_spans' = _spans /\ has_spans' = has_spans)
        /\ (pc = "spans_loop" /\ err' \in {"APIError", "TypeError: list >= int"}) => (_spans' = _spans /\ has_spans' = has_spans)
        /\ (_spans' # _spans \/ has_spans' # has_spans) => (pc = "spans_loop" /\ pc' # "spans_loop" /\ has_spans' /\ _spans' = Concatenated(served'))
      ]_vars

\* a spans(refresh=True) has failed on its second page, after a first page
\* of 17 spans, and the cache holds the two spans it held before
SpanCacheReplacedWholeWitness ==
    /\ pc = "idle"
    /\ call.op = "spans"
    /\ call.refresh
    /\ err = "APIError"
    /\ Len(spanReqs) = 2
    /\ Len(served) = 1
    /\ Len(served[1].spans) = 17
    /\ has_spans
    /\ Len(_spans) = 2

\* ------------------------------------------------ claims about pool.map

\* the pages of the k-th span in order: what a _slice call of that span
\* alone is answered with when no request fails
PagesInOrder(k) == [tok \in 1..PagesOf(k) |-> PageFor(k, tok - 1)]

\* what a sequential _slice call of the k-th span returns
Sequential(k) == SliceReturnValue(SliceRun(SliceEntry, PagesInOrder(k)))

\* C29: however the workers' _slice calls interleave, a pool.map that
\* returns delivers the results in the order of the span list, the i-th
\* being what a sequential _slice of the i-th span returns; and a task's
\* result, once there, is what its own call returned.
MapDeliversInSpanOrder ==
    /\ \A k \in DOMAIN results : results[k].state = "returned" => results[k].streams = Sequential(k)
    /\ (data # <<>> /\ data[1].state # "raised") => /\ Len(data) = Len(task)
                                                    /\ \A k \in DOMAIN data : data[k] = [state |-> "returned", streams |-> Sequential(k)]

\* the second span's call has returned, with that span's event, while
\* the first span's call is retrying the request for its second page
MapDeliversInSpanOrderWitness ==
    /\ Len(task) >= 2
    /\ results[2].state = "returned"
    /\ results[2].streams["a"].events = << [id |-> 20] >>
    /\ task[1].pc = "loop"
    /\ task[1].c = 1
    /\ task[1].retries > 0
    /\ results[1].state = "pending"

====
